---- MODULE Spec2Model ----
(***************************************************************************)
(* A model of the chemicaldiagram package: the diagram graph               *)
(* (chemicaldiagram/diagram.py), the rule compiler, the filter engine and  *)
(* the chemical predicates (chemicaldiagram/filter.py), with the element   *)
(* tables of chemicaldiagram/utils.py.                                     *)
(*                                                                         *)
(* Text is modelled as a sequence of atoms.  An atom is a string that the  *)
(* program never looks inside: an element symbol ("C", "Fe", "M"), a word  *)
(* ("line", "graph", "inclusion"), a punctuation character ("-", "*", ";", *)
(* ",", ":"), a blank " " or a line break "\n".  Substring tests,          *)
(* replace, strip and split act on these sequences as Python's str         *)
(* methods act on characters.                                              *)
(*                                                                         *)
(* A call ends either by returning a value or by raising an exception; an  *)
(* outcome is the record [exc, value] with exc = "none" for a return.      *)
(***************************************************************************)
EXTENDS Integers, Sequences, FiniteSets, TLC

VARIABLES
    cd,          \* the ChemicalDiagram under consideration (graph attributes)
    call,        \* the operation applied to cd and its arguments
    ret,         \* the outcome of that call
    rules,       \* generate_subgraph_rules: the rule text given
    metal_only,  \* generate_subgraph_rules: the metal_only argument
    rc           \* generate_subgraph_rules: the locals and the outcome
    ,flt         \* a ChemicalDiagramFilter (its three lists)
    ,acc         \* accept: the position in its loops, the checks made, the outcome

vars == <<cd, call, ret, rules, metal_only, rc, flt, acc>>

----------------------------------------------------------------------------
(* Bounds of the model *)

MaxNodes == 3
MaxOrganicNodes == 4
MaxOxideNodes == 4
MaxSize == 5
MaxDiagramNodes == 4
MaxConverterAtoms == 4
MaxLabelledAtoms == 2
MaxLabelLen == 3
MaxMultiple == 1
MaxCharged == 2
MaxPoly == 2
MaxFunctions == 2
MaxInclusion == 2
MaxExclusion == 2
MaxLines == 2

----------------------------------------------------------------------------
(* utils.py: the element tables *)

Metals ==
    {"Li", "Be", "Na", "Mg", "Al", "K", "Ca", "Sc", "Ti", "V", "Cr", "Mn", "Fe", "Co", "Ni", "Cu", "Zn",
     "Ga",
     "Rb", "Sr", "Y", "Zr", "Nb", "Mo", "Tc", "Ru", "Rh", "Pd", "Ag", "Cd", "In", "Sn", "Cs", "Ba", "La",
     "Ce",
     "Pr", "Nd", "Pm", "Sm", "Eu", "Gd", "Tb", "Dy", "Ho", "Er", "Tm", "Yb", "Lu", "Hf", "Ta", "W", "Re",
     "Os",
     "Ir", "Pt", "Au", "Hg", "Tl", "Pb", "Bi", "Po", "Fr", "Ra", "Ac", "Th", "Pa", "U", "Np", "Pu", "Am",
     "Cm",
     "Bk", "Cf", "Es", "Fm", "Md", "No", "Lr", "Rf", "Db", "Sg", "Bh", "Hs", "Mt", "Ds", "Rg", "Cn", "Nh",
     "Fl", "Mc", "Lv"}

Metalloids == {"Si", "Te", "Sb", "Ge"}

MetalAndMetalloids == Metals \cup Metalloids

----------------------------------------------------------------------------
(* Outcomes of a call *)

Return(v) == [exc |-> "none", value |-> v]

Raise(e) == [exc |-> e, value |-> FALSE]

NoCall == [op |-> "none"]

NoOutcome == [exc |-> "pending", value |-> FALSE]

----------------------------------------------------------------------------
(* Graphs.  A graph is a record with nodes (a set of integers), symbol (a  *)
(* function on nodes) and edges (a set of two-element sets of nodes).  A   *)
(* diagram's graph also has charge (on nodes) and polymeric (on edges).    *)

RECURSIVE SumOver(_, _)
SumOver(S, f) ==
    IF S = {} THEN 0
    ELSE LET x == CHOOSE y \in S : TRUE IN f[x] + SumOver(S \ {x}, f)

SeqToSet(s) == {s[i] : i \in 1..Len(s)}

Neighbors(g, n) == {m \in g.nodes : {n, m} \in g.edges}

EdgesAt(g, n) == {e \in g.edges : n \in e}

RECURSIVE Reach(_, _)
Reach(g, S) ==
    LET T == S \cup UNION {Neighbors(g, n) : n \in S}
    IN  IF T = S THEN S ELSE Reach(g, T)

EmptyDiagram ==
    [nodes |-> {}, symbol |-> <<>>, charge |-> <<>>, edges |-> {}, polymeric |-> <<>>]

(* converter.py adds one node per atom (graph.add_node) and then one edge   *)
(* per bonded pair (graph.add_edge); nodes are numbered from 0.            *)
add_node(g, n, s, c) ==
    [g EXCEPT !.nodes = @ \cup {n},
              !.symbol = [m \in g.nodes \cup {n} |-> IF m = n THEN s ELSE g.symbol[m]],
              !.charge = [m \in g.nodes \cup {n} |-> IF m = n THEN c ELSE g.charge[m]]]

add_edge(g, u, v, p) ==
    [g EXCEPT !.edges = @ \cup {{u, v}},
              !.polymeric = [e \in g.edges \cup {{u, v}} |->
                                IF e = {u, v} THEN p ELSE g.polymeric[e]]]

----------------------------------------------------------------------------
(* converter.py: from_csd_entry_to_diagram.  A charge label is a sequence  *)
(* of characters.                                                          *)

Digits == <<"0", "1", "2", "3", "4", "5", "6", "7", "8", "9">>

IsDigit(c) == \E k \in 1..10 : Digits[k] = c

DigitValue(c) == (CHOOSE k \in 1..10 : Digits[k] = c) - 1

\* the first run of digits of label: re.findall(r"\d+", label)[0], <<>>
\* standing for the empty list findall returns when there is no digit
RECURSIVE first_digits(_)
first_digits(label) ==
    IF label = <<>> THEN <<>>
    ELSE IF ~ IsDigit(Head(label)) THEN first_digits(Tail(label))
    ELSE LET rest == Tail(label)
         IN  IF rest # <<>> /\ IsDigit(Head(rest))
             THEN <<Head(label)>> \o first_digits(rest)
             ELSE <<Head(label)>>

\* int(digits)
RECURSIVE int_of(_)
int_of(ds) ==
    IF ds = <<>> THEN 0
    ELSE 10 * int_of(SubSeq(ds, 1, Len(ds) - 1)) + DigitValue(ds[Len(ds)])

\* lines 57-69 with the sign tests in the other order
charge_of_label_plus_first(label) ==
    IF Len(label) = 0 THEN Return(0)
    ELSE LET ds == first_digits(label)
             charge == IF ds = <<>> THEN 1 ELSE int_of(ds)
         IN  IF "+" \in SeqToSet(label) THEN Return(charge)
             ELSE IF "-" \in SeqToSet(label) THEN Return(0 - charge)
             ELSE Raise("ConverterError")

\* lines 57-69: the charge of an atom from its top right label
charge_of_label(label) ==
    IF Len(label) = 0 THEN Return(0)
    ELSE LET ds == first_digits(label)
             charge == IF ds = <<>> THEN 1 ELSE int_of(ds)
         IN  IF "-" \in SeqToSet(label) THEN Return(0 - charge)
             ELSE IF "+" \in SeqToSet(label) THEN Return(charge)
             ELSE Raise("ConverterError")

\* lines 113-128: the oxygens whose bonds to atoms other than H and D are
\* all polymeric and at least one
\* oxynodes_tochange without the test len(edge_poly) > 0
oxynodes_tochange_without_len(g) ==
    {n \in g.nodes :
        /\ g.symbol[n] = "O"
        /\ \A m \in Neighbors(g, n) :
              g.symbol[m] \notin {"H", "D"} => g.polymeric[{n, m}]}

oxynodes_tochange(g) ==
    {n \in g.nodes :
        /\ g.symbol[n] = "O"
        /\ LET others == {m \in Neighbors(g, n) : g.symbol[m] \notin {"H", "D"}}
           IN  (\A m \in others : g.polymeric[{n, m}]) /\ Cardinality(others) > 0}

\* the correction without the test len(edge_poly) > 0
oh_correction_of_any_oxygen(g) ==
    LET change == {n \in g.nodes :
                      /\ g.symbol[n] = "O"
                      /\ \A m \in Neighbors(g, n) :
                            g.symbol[m] \notin {"H", "D"} => g.polymeric[{n, m}]}
    IN  [g EXCEPT !.polymeric =
            [e \in g.edges |->
                IF \E n \in change : \E h \in Neighbors(g, n) :
                       g.symbol[h] \in {"H", "D"} /\ e = {n, h}
                THEN TRUE ELSE g.polymeric[e]]]

\* lines 113-131: the bonds of those oxygens to H and D made polymeric
oh_correction(g) ==
    LET change == oxynodes_tochange(g)
    IN  [g EXCEPT !.polymeric =
            [e \in g.edges |->
                IF \E n \in change : \E h \in Neighbors(g, n) :
                       g.symbol[h] \in {"H", "D"} /\ e = {n, h}
                THEN TRUE ELSE g.polymeric[e]]]

----------------------------------------------------------------------------
(* diagram.py: ChemicalDiagram *)

\* self.symbols = nx.get_node_attributes(self.graph, "symbol")
symbols(d) == d.symbol

symbol_values(d) == {d.symbol[n] : n \in d.nodes}

\* get_nodes_not_all_poly without its elif branch (lines 81-82)
get_nodes_with_solid_bond(d) ==
    {n \in d.nodes : ~ (\A e \in EdgesAt(d, n) : d.polymeric[e])}

\* nodes with a non-polymeric bond, or with no bond at all
get_nodes_not_all_poly(d) ==
    {n \in d.nodes :
        \/ ~ (\A e \in EdgesAt(d, n) : d.polymeric[e])
        \/ EdgesAt(d, n) = {}}

\* G.subgraph(S) keeping the nodes of S and none of the edges
subgraph_without_edges(d, S) ==
    [nodes |-> d.nodes \cap S,
     symbol |-> [n \in d.nodes \cap S |-> d.symbol[n]],
     charge |-> [n \in d.nodes \cap S |-> d.charge[n]],
     edges |-> {},
     polymeric |-> <<>>]

subgraph(d, S) ==
    LET E == {e \in d.edges : e \subseteq S}
    IN  [nodes |-> d.nodes \cap S,
         symbol |-> [n \in d.nodes \cap S |-> d.symbol[n]],
         charge |-> [n \in d.nodes \cap S |-> d.charge[n]],
         edges |-> E,
         polymeric |-> [e \in E |-> d.polymeric[e]]]

local_graph(d) == subgraph(d, get_nodes_not_all_poly(d))

\* total_charge summed over every node of the graph
total_charge_of_graph(d) == SumOver(d.nodes, d.charge)

total_charge(d) == SumOver(local_graph(d).nodes, local_graph(d).charge)

\* the symbols the diagrams are built from, in the order of Python's
\* sorted() on strings
SortedSymbols == <<"C", "Cl", "D", "Fe", "H", "M", "N", "O", "Si">>

\* "{}".format(n) for an integer n >= 0: its decimal digits
RECURSIVE str_int(_)
str_int(n) ==
    IF n < 10 THEN <<Digits[n + 1]>>
    ELSE str_int(n \div 10) \o <<Digits[(n % 10) + 1]>>

\* Counter(local_symbols)[k]
symbol_count(d, k) == Cardinality({n \in local_graph(d).nodes : d.symbol[n] = k})

\* lines 103-107: one "{symbol}{count} " for each symbol, in sorted order
RECURSIVE formula_of(_, _)
formula_of(d, keys) ==
    IF keys = <<>> THEN <<>>
    ELSE (IF symbol_count(d, Head(keys)) > 0
          THEN <<Head(keys)>> \o str_int(symbol_count(d, Head(keys))) \o <<" ">>
          ELSE <<>>)
         \o formula_of(d, Tail(keys))

get_formula(d) == formula_of(d, SortedSymbols)

RECURSIVE repeated(_, _)
repeated(x, n) == IF n = 0 THEN <<>> ELSE <<x>> \o repeated(x, n - 1)

\* lines 85-90: sorted(lst) of the symbols of the local graph's nodes
RECURSIVE element_list_of(_, _)
element_list_of(d, keys) ==
    IF keys = <<>> THEN <<>>
    ELSE repeated(Head(keys), symbol_count(d, Head(keys)))
         \o element_list_of(d, Tail(keys))

get_element_list(d) == element_list_of(d, SortedSymbols)

\* nx.is_connected: raises NetworkXPointlessConcept on the graph without
\* nodes, else tells whether every node is reachable from one of them.
is_connected(g) ==
    IF g.nodes = {} THEN Raise("NetworkXPointlessConcept")
    ELSE LET n0 == CHOOSE n \in g.nodes : TRUE
         IN  Return(Reach(g, {n0}) = g.nodes)

\* iso.GraphMatcher(G1, G2, node_match on "symbol").subgraph_is_isomorphic():
\* some node-induced subgraph of G1 is isomorphic to G2.  The map f sends
\* G2's nodes to distinct nodes of G1 with equal symbols, and two nodes of
\* G2 are adjacent exactly when their images are.
IsInducedEmbedding(g1, g2, f) ==
    /\ \A p, q \in g2.nodes : p # q => f[p] # f[q]
    /\ \A p \in g2.nodes : g1.symbol[f[p]] = g2.symbol[p]
    /\ \A p, q \in g2.nodes :
          p # q => (({p, q} \in g2.edges) <=> ({f[p], f[q]} \in g1.edges))

subgraph_is_isomorphic(g1, g2) ==
    /\ \A p \in g2.nodes : \E n \in g1.nodes : g1.symbol[n] = g2.symbol[p]
    /\ \E f \in [g2.nodes -> g1.nodes] : IsInducedEmbedding(g1, g2, f)

contains_subgraph(d, subg) == subgraph_is_isomorphic(d, subg)

\* ChemicalDiagram(graph, identifier): the object with its two fields
ChemicalDiagram(g, id) == [graph |-> g, identifier |-> id]

Min(S) == CHOOSE x \in S : \A y \in S : x <= y

\* nx.connected_components(G): the components in the order in which G's
\* nodes meet them; the nodes are walked in the order they were added,
\* which is the order of their numbers (converter.py, line 51)
RECURSIVE components_of(_, _)
components_of(g, rest) ==
    IF rest = {} THEN <<>>
    ELSE LET c == Reach(g, {Min(rest)})
         IN  <<c>> \o components_of(g, rest \ c)

\* connected_components taking all the nodes for one component
connected_components_as_one(g) == <<g.nodes>>

connected_components(g) == components_of(g, g.nodes)

\* get_components taking the components of the local graph
get_components_of_local_graph(D) ==
    LET cs == connected_components(local_graph(D.graph))
    IN  [k \in 1..Len(cs) |-> ChemicalDiagram(subgraph(D.graph, cs[k]), D.identifier)]

get_components(D) ==
    LET cs == connected_components(D.graph)
    IN  [k \in 1..Len(cs) |-> ChemicalDiagram(subgraph(D.graph, cs[k]), D.identifier)]

\* __len__: len(self.local_graph)
diagram_len(D) == Cardinality(local_graph(D.graph).nodes)

\* Python values of two types: an int is never equal to a str
py_int(n) == [int |-> n]

py_str(s) == [str |-> s]

\* utils.all_elements: the keys of the Jmol colour table, element symbols.
\* The model holds the symbols the diagrams are built from and the metals.
all_elements ==
    {"H", "D", "C", "N", "O", "F", "Cl", "Br", "I", "S"} \cup MetalAndMetalloids

\* lines 152-155: set(self.symbols.keys()).issubset(set(all_elements)); the
\* keys of self.symbols are the nodes, which are ints
check_symbols(d) ==
    {py_int(n) : n \in DOMAIN symbols(d)} \subseteq {py_str(e) : e \in all_elements}

\* Counter(values): how many nodes carry each label
Counter(labels, nodes) ==
    [l \in {labels[n] : n \in nodes} |-> Cardinality({n \in nodes : labels[n] = l})]

\* _neighborhood_aggregate with the edge attribute polymeric put before
\* each neighbour's label (edge_attr="polymeric")
neighborhood_aggregate_with_edges(g, n, labels) ==
    [own |-> labels[n],
     nbs |-> Counter([m \in Neighbors(g, n) |-> <<g.polymeric[{n, m}], labels[m]>>],
                     Neighbors(g, n))]

\* _neighborhood_aggregate (edge_attr=None): the node's label followed by
\* its neighbours' labels, sorted; kept as the node's label and how often
\* each label occurs among its neighbours
neighborhood_aggregate(g, n, labels) ==
    [own |-> labels[n],
     nbs |-> Counter([m \in Neighbors(g, n) |-> labels[m]], Neighbors(g, n))]

\* _hash_label: the digest of a label; equal labels have equal digests
hash_label(label) == [digest_of |-> label]

\* one Weisfeiler-Lehman step: the new label of every node of S
RECURSIVE new_labels_of(_, _, _)
new_labels_of(g, labels, S) ==
    IF S = {} THEN <<>>
    ELSE LET n == Min(S)
         IN  (n :> hash_label(neighborhood_aggregate(g, n, labels)))
             @@ new_labels_of(g, labels, S \ {n})

weisfeiler_lehman_step(g, labels) == new_labels_of(g, labels, g.nodes)

\* the counters of the labels after each of the steps that are left
RECURSIVE subgraph_hash_counts(_, _, _)
subgraph_hash_counts(g, labels, iterations) ==
    IF iterations = 0 THEN <<>>
    ELSE LET new_labels == weisfeiler_lehman_step(g, labels)
         IN  <<Counter(new_labels, g.nodes)>>
             \o subgraph_hash_counts(g, new_labels, iterations - 1)

WLIterations == 5

\* nx.weisfeiler_lehman_graph_hash(self.graph, node_attr="symbol",
\* iterations=5, digest_size=64)
graph_hash(D) ==
    hash_label(subgraph_hash_counts(D.graph, D.graph.symbol, WLIterations))

\* __hash__: hash(self.graph_hash); equal strings have equal hashes
diagram_hash(D) == [hash_of |-> graph_hash(D)]

\* __eq__
diagram_eq(D, other) == diagram_hash(D) = diagram_hash(other)

\* BuildingUnitDiagram._allowed_centers (the default of allowed_centers)
allowed_centers ==
    {"Si", "B", "C", "N", "P", "S", "Cl", "As", "Se", "Br", "I", "Li",
     "Be", "Na", "Mg", "Al", "K", "Ca", "Sc", "Ti", "V", "Cr", "Mn", "Fe",
     "Co", "Ni", "Cu", "Zn", "Ga", "Rb", "Sr", "Y", "Zr", "Nb", "Mo", "Tc",
     "Ru", "Rh", "Pd", "Ag", "Cd", "In", "Sn", "Cs", "Ba", "La", "Ce",
     "Pr", "Nd", "Pm", "Sm", "Eu", "Gd", "Tb", "Dy", "Ho", "Er", "Tm",
     "Yb", "Lu", "Hf", "Ta", "W", "Re", "Os", "Ir", "Pt", "Au", "Hg", "Tl",
     "Pb", "Bi", "Po", "Fr", "Ra", "Ac", "Th", "Pa", "U", "Np", "Pu", "Am",
     "Cm", "Bk", "Cf", "Es", "Fm", "Md", "No", "Lr", "Rf", "Db", "Sg",
     "Bh", "Hs", "Mt", "Ds", "Rg", "Cn", "Nh", "Fl", "Mc", "Lv", "Te",
     "Sb", "Ge"}

\* BuildingUnitDiagram(g, identifier)
BuildingUnitDiagram(g, id) == [graph |-> g, identifier |-> id]

\* BuildingUnitDiagram: local_graph is the whole graph, so len is its size
unit_len(bu) == Cardinality(bu.graph.nodes)

\* reduced_graph taken from the whole graph, not from the local graph
reduced_graph_of_graph(d, centers) ==
    subgraph(d, {n \in d.nodes : d.symbol[n] \in centers})

\* lines 256-265: the local graph without the nodes that are no center
reduced_graph(d, centers) ==
    subgraph(local_graph(d), {n \in local_graph(d).nodes : d.symbol[n] \in centers})

\* building_unit with the neighbours taken in the local graph
building_unit_local(d, buc) == buc \cup UNION {Neighbors(local_graph(d), n) : n \in buc}

\* lines 270-275: a core with the neighbours its nodes have in graph
building_unit(d, buc) == buc \cup UNION {Neighbors(d, n) : n \in buc}

\* sorted(bus, key=len, reverse=True): by size, the larger first; units of
\* one size keep their order
RECURSIVE insert_by_len(_, _)
insert_by_len(bus, bu) ==
    IF bus = <<>> THEN <<bu>>
    ELSE IF unit_len(Head(bus)) >= unit_len(bu)
         THEN <<Head(bus)>> \o insert_by_len(Tail(bus), bu)
         ELSE <<bu>> \o bus

RECURSIVE sorted_by_len(_)
sorted_by_len(bus) ==
    IF bus = <<>> THEN <<>>
    ELSE insert_by_len(sorted_by_len(SubSeq(bus, 1, Len(bus) - 1)), bus[Len(bus)])

\* the list bus before it is sorted (lines 267-277)
building_units(D, centers) ==
    LET cores == connected_components(reduced_graph(D.graph, centers))
    IN  [k \in 1..Len(cores) |->
            BuildingUnitDiagram(subgraph(D.graph, building_unit(D.graph, cores[k])),
                                D.identifier)]

get_pbus_from_diagram(D, centers) == sorted_by_len(building_units(D, centers))

----------------------------------------------------------------------------
(* Python's str methods, on sequences of atoms *)

\* pat in s
IsIn(pat, s) ==
    \E i \in 1..(Len(s) - Len(pat) + 1) : SubSeq(s, i, i + Len(pat) - 1) = pat

\* s.replace(old, new): every occurrence, left to right, not overlapping
RECURSIVE replace(_, _, _)
replace(s, old, new) ==
    IF Len(s) < Len(old) \/ old = <<>> THEN s
    ELSE IF SubSeq(s, 1, Len(old)) = old
         THEN new \o replace(SubSeq(s, Len(old) + 1, Len(s)), old, new)
         ELSE <<Head(s)>> \o replace(Tail(s), old, new)

\* s.split(sep) for a one-atom separator: the pieces, empty ones included
RECURSIVE split_on(_, _)
split_on(s, sep) ==
    IF \A i \in 1..Len(s) : s[i] # sep THEN <<s>>
    ELSE LET i == CHOOSE k \in 1..Len(s) :
                      s[k] = sep /\ \A j \in 1..(k - 1) : s[j] # sep
         IN  <<SubSeq(s, 1, i - 1)>> \o split_on(SubSeq(s, i + 1, Len(s)), sep)

NonEmpty(w) == w # <<>>

\* s.split(): the words between runs of blanks
split(s) == SelectSeq(split_on(s, " "), NonEmpty)

RECURSIVE lstrip(_, _)
lstrip(s, c) == IF s # <<>> /\ Head(s) = c THEN lstrip(Tail(s), c) ELSE s

RECURSIVE rstrip(_, _)
rstrip(s, c) ==
    IF s # <<>> /\ s[Len(s)] = c THEN rstrip(SubSeq(s, 1, Len(s) - 1), c) ELSE s

\* s.strip() with c = " ", s.strip(",") with c = ","
strip(s, c) == rstrip(lstrip(s, c), c)

\* the string a sequence of atoms spells
RECURSIVE Concat(_)
Concat(s) == IF s = <<>> THEN "" ELSE Head(s) \o Concat(Tail(s))

\* s[-1] of a non-empty list
Last(s) == s[Len(s)]

HasDash(w) == "-" \in SeqToSet(w)

HasStar(w) == "*" \in SeqToSet(w)

HasSemi(w) == ";" \in SeqToSet(w)

\* a set's elements in the order the program meets them.  Python leaves the
\* iteration order of a set open; the model fixes one.
RECURSIVE SetToSeq(_)
SetToSeq(S) ==
    IF S = {} THEN <<>>
    ELSE LET x == CHOOSE y \in S : TRUE IN <<x>> \o SetToSeq(S \ {x})

----------------------------------------------------------------------------
(* filter.py: the rule compiler *)

gen_line_graph(atoms) ==
    [nodes |-> 0..(Len(atoms) - 1),
     symbol |-> [i \in 0..(Len(atoms) - 1) |-> atoms[i + 1]],
     edges |-> {{i, i + 1} : i \in 0..(Len(atoms) - 2)}]

gen_star_graph(center, nbs) ==
    LET syms == <<center>> \o nbs
    IN  [nodes |-> 0..(Len(syms) - 1),
         symbol |-> [i \in 0..(Len(syms) - 1) |-> syms[i + 1]],
         edges |-> {{0, i} : i \in 1..(Len(syms) - 1)}]

\* subg.graph["instruction"] = rule
WithInstruction(g, rule) ==
    [nodes |-> g.nodes, symbol |-> g.symbol, edges |-> g.edges, instruction |-> rule]

\* lines 82-89: the expansions of the lines that hold "M-", in line order
RECURSIVE expand_M_rules(_, _)
expand_M_rules(lines, ms) ==
    IF lines = <<>> THEN <<>>
    ELSE (IF IsIn(<<"M", "-">>, Head(lines))
          THEN [k \in 1..Len(ms) |-> replace(Head(lines), <<"M", "-">>, <<ms[k], "-">>)]
          ELSE <<>>)
         \o expand_M_rules(Tail(lines), ms)

MetalsSeq == SetToSeq(Metals)

MetalAndMetalloidsSeq == SetToSeq(MetalAndMetalloids)

\* lines 81-90: the list of lines the second loop walks
rule_lines(text, m_only) ==
    LET lines == split_on(text, "\n")
    IN  lines \o expand_M_rules(lines, IF m_only THEN MetalsSeq ELSE MetalAndMetalloidsSeq)

\* lines 92-103: the pattern of one line, or the exception it raises.  An
\* index [-1] into an empty list raises IndexError.
rule_subgraph(rule) ==
    IF IsIn(<<"line", " ", "graph">>, rule)
    THEN LET ws == SelectSeq(split(rule), HasDash)
         IN  IF ws = <<>> THEN Raise("IndexError")
             ELSE LET parts == split_on(Last(ws), "-")
                      atoms == [k \in 1..Len(parts) |-> Concat(parts[k])]
                  IN  Return(WithInstruction(gen_line_graph(atoms), rule))
    ELSE IF IsIn(<<"neighbor", " ", "graph">>, rule)
    THEN LET cs == SelectSeq(split(rule), HasStar)
             ns == SelectSeq(split(rule), HasSemi)
         IN  IF cs = <<>> \/ ns = <<>> THEN Raise("IndexError")
             ELSE LET center == Concat(Tail(Last(cs)))
                      parts == split_on(Last(ns), ";")
                      nbs == [k \in 1..Len(parts) |-> Concat(parts[k])]
                  IN  Return(WithInstruction(gen_star_graph(center, nbs), rule))
    ELSE Raise("ValueError")

\* lines 104-109: the list the pattern is appended to
rule_tag(rule) ==
    IF IsIn(<<"inclusion">>, rule) THEN Return("inclusion")
    ELSE IF IsIn(<<"exclusion">>, rule) THEN Return("exclusion")
    ELSE Raise("ValueError")

\* lines 91-109: one turn of the second loop on the locals loc
compile_rule(loc) ==
    LET rule == strip(strip(loc.rules[loc.i], " "), ",")
        g == rule_subgraph(rule)
        t == rule_tag(rule)
    IN  IF g.exc # "none" THEN [loc EXCEPT !.pc = "raised", !.out = Raise(g.exc)]
        ELSE IF t.exc # "none" THEN [loc EXCEPT !.pc = "raised", !.out = Raise(t.exc)]
        ELSE IF t.value = "inclusion"
             THEN [loc EXCEPT !.i = @ + 1, !.in_subgs = Append(@, g.value)]
             ELSE [loc EXCEPT !.i = @ + 1, !.ex_subgs = Append(@, g.value)]

\* lines 76-90: the locals when the second loop starts
compile_start(text, m_only) ==
    [pc |-> "loop", rules |-> rule_lines(text, m_only), i |-> 1,
     in_subgs |-> <<>>, ex_subgs |-> <<>>, out |-> NoOutcome]

\* line 110
compile_return(loc) ==
    [loc EXCEPT !.pc = "returned",
                !.out = Return([in_subgs |-> loc.in_subgs, ex_subgs |-> loc.ex_subgs])]

RECURSIVE compile_run(_)
compile_run(loc) ==
    IF loc.pc # "loop" THEN loc
    ELSE IF loc.i > Len(loc.rules) THEN compile_return(loc)
    ELSE compile_run(compile_rule(loc))

\* the whole call, as a function of its arguments
generate_subgraph_rules(text, m_only) == compile_run(compile_start(text, m_only)).out

----------------------------------------------------------------------------
(* filter.py: the chemical predicates *)

\* the assert statement left out: nothing is checked
assert_nothing(d) == Return(TRUE)

\* assert nx.is_connected(diagram.graph), "..."
assert_is_connected(d) ==
    LET c == is_connected(d)
    IN  IF c.exc # "none" THEN c
        ELSE IF c.value THEN Return(TRUE)
        ELSE Raise("AssertionError")

allowed_symbols(is_amine_like) ==
    IF is_amine_like THEN {"C", "N", "H"}
    ELSE {"C", "N", "H", "F", "Cl", "Br", "I", "S", "O"}

nb_hcount(d, n) == Cardinality({nb \in Neighbors(d, n) : d.symbol[nb] = "H"})

\* node_charge_ok without the test that an amine's charged atom is N
node_charge_ok_any_symbol(d, n, is_amine_like) ==
    LET node_charge == d.charge[n]
    IN  IF node_charge = 0 THEN TRUE
        ELSE IF node_charge < 0 THEN FALSE
        ELSE ~ (node_charge > nb_hcount(d, n))

\* lines 152-169: TRUE when the loop passes node n, FALSE when it returns
\* False at n
node_charge_ok(d, n, is_amine_like) ==
    LET node_charge == d.charge[n]
    IN  IF node_charge = 0 THEN TRUE
        ELSE IF node_charge < 0 THEN FALSE
        ELSE IF is_amine_like /\ d.symbol[n] # "N" THEN FALSE
        ELSE ~ (node_charge > nb_hcount(d, n))

cnh_graph == gen_line_graph(<<"C", "N", "H">>)

\* Every early exit of the node loop returns False, so the order in which
\* the nodes are walked does not show in the result.
is_organic_cation_like(d, is_amine_like) ==
    LET a == assert_is_connected(d)
    IN  IF a.exc # "none" THEN a
        ELSE IF ~ ({"C", "H"} \subseteq symbol_values(d)) THEN Return(FALSE)
        ELSE IF is_amine_like /\ ~ contains_subgraph(d, cnh_graph) THEN Return(FALSE)
        ELSE IF ~ (symbol_values(d) \subseteq allowed_symbols(is_amine_like))
             THEN Return(FALSE)
        ELSE IF total_charge(d) <= 0 THEN Return(FALSE)
        ELSE IF \E n \in d.nodes : ~ node_charge_ok(d, n, is_amine_like)
             THEN Return(FALSE)
        ELSE Return(TRUE)

m_defined(m_only) == IF m_only THEN MetalsSeq ELSE MetalAndMetalloidsSeq

\* mo3_rule tagged as an exclusion rule
mo3_rule_exclusion(m) ==
    <<"neighbor", " ", "graph", " ", "exclusion", ":", " ", "any", " ", "*", m, " ",
      "has", " ", "neighbours", " ", "O", ";", "O", ";", "O", ",">>

\* "neighbor graph inclusion: any *{} has neighbours O;O;O,".format(m)
mo3_rule(m) ==
    <<"neighbor", " ", "graph", " ", "inclusion", ":", " ", "any", " ", "*", m, " ",
      "has", " ", "neighbours", " ", "O", ";", "O", ";", "O", ",">>

\* "line graph exclusion: any {}-{},".format(m, x)
mx_rule(m, x) ==
    <<"line", " ", "graph", " ", "exclusion", ":", " ", "any", " ", m, "-", x, ",">>

Halogens == <<"F", "Cl", "Br", "I">>

\* lines 203-207: the in_subgs of every rule, collected in the order of ms
\* (the list is halved rather than walked, which keeps the evaluation shallow)
RECURSIVE collect_mo3(_)
collect_mo3(ms) ==
    IF ms = <<>> THEN <<>>
    ELSE IF Len(ms) = 1
    THEN generate_subgraph_rules(mo3_rule(ms[1]), FALSE).value.in_subgs
    ELSE LET h == Len(ms) \div 2
         IN  collect_mo3(SubSeq(ms, 1, h)) \o collect_mo3(SubSeq(ms, h + 1, Len(ms)))

\* lines 214-217: for one m, the in_subgs of the rule of every halogen
RECURSIVE collect_x(_, _)
collect_x(m, xs) ==
    IF xs = <<>> THEN <<>>
    ELSE generate_subgraph_rules(mx_rule(m, Head(xs)), FALSE).value.in_subgs
         \o collect_x(m, Tail(xs))

\* lines 212-217: again the in_subgs of every rule, collected
RECURSIVE collect_mx(_)
collect_mx(ms) ==
    IF ms = <<>> THEN <<>>
    ELSE IF Len(ms) = 1 THEN collect_x(ms[1], Halogens)
    ELSE LET h == Len(ms) \div 2
         IN  collect_mx(SubSeq(ms, 1, h)) \o collect_mx(SubSeq(ms, h + 1, Len(ms)))

mo3_of_metals == collect_mo3(MetalsSeq)

mo3_of_metals_and_metalloids == collect_mo3(MetalAndMetalloidsSeq)

mx_of_metals == collect_mx(MetalsSeq)

mx_of_metals_and_metalloids == collect_mx(MetalAndMetalloidsSeq)

mo3_subgraphs(m_only) ==
    IF m_only THEN mo3_of_metals ELSE mo3_of_metals_and_metalloids

mx_subgraphs(m_only) ==
    IF m_only THEN mx_of_metals ELSE mx_of_metals_and_metalloids

\* any(diagram.contains_subgraph(subg) for subg in subgs)
any_contained(d, subgs) ==
    \E k \in 1..Len(subgs) : contains_subgraph(d, subgs[k])

is_metal_oxide_or_halide(d, metal_oxide, m_only, assume_anion) ==
    LET a == assert_is_connected(d)
    IN  IF a.exc # "none" THEN a
        ELSE IF SeqToSet(m_defined(m_only)) \cap symbol_values(d) = {} THEN Return(FALSE)
        ELSE IF assume_anion /\ total_charge(d) >= 0 THEN Return(FALSE)
        ELSE IF metal_oxide
             THEN (IF ~ any_contained(d, mo3_subgraphs(m_only))
                   THEN Return(FALSE) ELSE Return(TRUE))
             ELSE (IF ~ any_contained(d, mx_subgraphs(m_only))
                   THEN Return(FALSE) ELSE Return(TRUE))

----------------------------------------------------------------------------
(* filter.py: the filter engine *)

NoFilter == [inclusion_subgraphs |-> <<>>, exclusion_subgraphs |-> <<>>,
             cd_filter_functions |-> <<>>, made |-> FALSE]

\* __init__
ChemicalDiagramFilter(inclusion_subgraphs, exclusion_subgraphs, cd_filter_functions) ==
    [inclusion_subgraphs |-> inclusion_subgraphs,
     exclusion_subgraphs |-> exclusion_subgraphs,
     cd_filter_functions |-> cd_filter_functions, made |-> TRUE]

\* A filter function is any callable; the model keeps its docstring and the
\* value it returns on the diagram at hand.
apply_function(fn, d) == fn.result

AccIdle == [pc |-> "idle", i |-> 0, log |-> <<>>, out |-> NoOutcome]

\* the loop accept is in once the loops that have run out are left behind
RECURSIVE next_loop(_, _)
next_loop(f, a) ==
    IF a.pc = "functions" /\ a.i > Len(f.cd_filter_functions)
    THEN next_loop(f, [a EXCEPT !.pc = "inclusion", !.i = 1])
    ELSE IF a.pc = "inclusion" /\ a.i > Len(f.inclusion_subgraphs)
    THEN next_loop(f, [a EXCEPT !.pc = "exclusion", !.i = 1])
    ELSE IF a.pc = "exclusion" /\ a.i > Len(f.exclusion_subgraphs)
    THEN [a EXCEPT !.pc = "end"]
    ELSE a

accept_start(f) == next_loop(f, [pc |-> "functions", i |-> 1, log |-> <<>>, out |-> NoOutcome])

Checked(a, kind, r) == Append(a.log, [kind |-> kind, i |-> a.i, result |-> r])

\* accept_function without the return on a failing function
accept_function_goes_on(f, d, a) ==
    next_loop(f, [a EXCEPT !.i = @ + 1,
                           !.log = Checked(a, "function",
                                           apply_function(f.cd_filter_functions[a.i], d))])

\* lines 22-27: one turn of the loop over the filter functions
accept_function(f, d, a) ==
    LET r == apply_function(f.cd_filter_functions[a.i], d)
    IN  IF r THEN next_loop(f, [a EXCEPT !.i = @ + 1, !.log = Checked(a, "function", r)])
        ELSE [a EXCEPT !.pc = "returned", !.log = Checked(a, "function", r),
                       !.out = Return(FALSE)]

\* accept_inclusion without the return on a pattern that is not contained
accept_inclusion_goes_on(f, d, a) ==
    next_loop(f, [a EXCEPT !.i = @ + 1,
                           !.log = Checked(a, "inclusion",
                                           contains_subgraph(d, f.inclusion_subgraphs[a.i]))])

\* lines 28-33: one turn of the loop over the inclusion patterns
accept_inclusion(f, d, a) ==
    LET r == contains_subgraph(d, f.inclusion_subgraphs[a.i])
    IN  IF r THEN next_loop(f, [a EXCEPT !.i = @ + 1, !.log = Checked(a, "inclusion", r)])
        ELSE [a EXCEPT !.pc = "returned", !.log = Checked(a, "inclusion", r),
                       !.out = Return(FALSE)]

\* accept_exclusion with the test of an inclusion pattern
accept_exclusion_as_inclusion(f, d, a) ==
    LET r == contains_subgraph(d, f.exclusion_subgraphs[a.i])
    IN  IF r THEN next_loop(f, [a EXCEPT !.i = @ + 1, !.log = Checked(a, "exclusion", r)])
        ELSE [a EXCEPT !.pc = "returned", !.log = Checked(a, "exclusion", r),
                       !.out = Return(FALSE)]

\* lines 34-39: one turn of the loop over the exclusion patterns
accept_exclusion(f, d, a) ==
    LET r == contains_subgraph(d, f.exclusion_subgraphs[a.i])
    IN  IF r THEN [a EXCEPT !.pc = "returned", !.log = Checked(a, "exclusion", r),
                            !.out = Return(FALSE)]
        ELSE next_loop(f, [a EXCEPT !.i = @ + 1, !.log = Checked(a, "exclusion", r)])

\* line 40
accept_return(a) == [a EXCEPT !.pc = "returned", !.out = Return(TRUE)]

accept_step(f, d, a) ==
    IF a.pc = "functions" THEN accept_function(f, d, a)
    ELSE IF a.pc = "inclusion" THEN accept_inclusion(f, d, a)
    ELSE IF a.pc = "exclusion" THEN accept_exclusion(f, d, a)
    ELSE IF a.pc = "end" THEN accept_return(a)
    ELSE a

RECURSIVE accept_run(_, _, _)
accept_run(f, d, a) ==
    IF a.pc \in {"returned", "idle"} THEN a ELSE accept_run(f, d, accept_step(f, d, a))

\* the whole call, as a function of the filter and the diagram
accept(f, d) == accept_run(f, d, accept_start(f)).out

----------------------------------------------------------------------------
(* States and inputs *)

RcIdle == [pc |-> "idle", rules |-> <<>>, i |-> 0,
           in_subgs |-> <<>>, ex_subgs |-> <<>>, out |-> NoOutcome]

BSeq(S, n) == UNION {[1..k -> S] : k \in 0..n}

with_edges(g, E) == [g EXCEPT !.edges = E, !.polymeric = [e \in E |-> FALSE]]

\* the diagrams on one C, one N and one H
CNHDiagrams ==
    LET g == add_node(add_node(add_node(EmptyDiagram, 0, "C", 0), 1, "N", 0), 2, "H", 0)
    IN  {with_edges(g, E) : E \in SUBSET {{0, 1}, {1, 2}, {0, 2}}}

LinePattern(atoms) == WithInstruction(gen_line_graph(atoms), atoms)

PatternPool == {LinePattern(<<"C", "N", "H">>), LinePattern(<<"N", "H">>)}

FunctionPool == [doc : {"P"}, result : BOOLEAN]

Filters ==
    {ChemicalDiagramFilter(inc, exc, fns) :
        inc \in BSeq(PatternPool, MaxInclusion),
        exc \in BSeq(PatternPool, MaxExclusion),
        fns \in BSeq(FunctionPool, MaxFunctions)}

\* every graph on the nodes 0..k-1, k <= 3, with symbols C, N, H
SmallPatterns ==
    UNION {{[nodes |-> 0..(k - 1), symbol |-> sy, edges |-> E] :
                sy \in [0..(k - 1) -> {"C", "N", "H"}],
                E \in SUBSET {e \in {{u, v} : u, v \in 0..(k - 1)} : Cardinality(e) = 2}}
           : k \in 0..3}

----------------------------------------------------------------------------
(* Actions: building a diagram's graph *)

Charged(d) == {n \in d.nodes : d.charge[n] # 0}

PolyEdges(d) == {e \in d.edges : d.polymeric[e]}

\* the size of a diagram: its atoms, its charged atoms, its polymeric bonds
Size(d) == Cardinality(d.nodes) + Cardinality(Charged(d)) + Cardinality(PolyEdges(d))

\* graph.add_node(i, symbol=..., charge=...): the next atom.  Atoms are
\* entered in the order of syms, which loses no diagram up to renumbering.
AddAtom(syms, charges, max) ==
    /\ call.op = "none"
    /\ cd.edges = {}
    /\ Cardinality(cd.nodes) < max
    /\ \E k \in 1..Len(syms), c \in charges :
          LET n == Cardinality(cd.nodes)
          IN  /\ n > 0 => \E j \in 1..k : syms[j] = cd.symbol[n - 1]
              /\ c # 0 => Cardinality(Charged(cd)) < MaxCharged
              /\ Size(cd) + (IF c # 0 THEN 2 ELSE 1) <= MaxSize
              /\ cd' = add_node(cd, n, syms[k], c)
    /\ UNCHANGED <<call, ret, rules, metal_only, rc, flt, acc>>

\* graph.add_edge(i, j, polymeric=..., bondtype=...): one more bond
AddBond(polys) ==
    /\ call.op = "none"
    /\ \E u, v \in cd.nodes, p \in polys :
          /\ u < v
          /\ {u, v} \notin cd.edges
          /\ p => Cardinality(PolyEdges(cd)) < MaxPoly /\ Size(cd) < MaxSize
          /\ cd' = add_edge(cd, u, v, p)
    /\ UNCHANGED <<call, ret, rules, metal_only, rc, flt, acc>>

----------------------------------------------------------------------------
(* Actions: the filter engine *)

AccPos == IF acc.pc = "idle" THEN accept_start(flt) ELSE acc

AcceptFunction ==
    /\ flt.made /\ AccPos.pc = "functions"
    /\ acc' = accept_function(flt, cd, AccPos)
    /\ UNCHANGED <<cd, call, ret, rules, metal_only, rc, flt>>

AcceptInclusion ==
    /\ flt.made /\ AccPos.pc = "inclusion"
    /\ acc' = accept_inclusion(flt, cd, AccPos)
    /\ UNCHANGED <<cd, call, ret, rules, metal_only, rc, flt>>

AcceptExclusion ==
    /\ flt.made /\ AccPos.pc = "exclusion"
    /\ acc' = accept_exclusion(flt, cd, AccPos)
    /\ UNCHANGED <<cd, call, ret, rules, metal_only, rc, flt>>

AcceptReturn ==
    /\ flt.made /\ AccPos.pc = "end"
    /\ acc' = accept_return(AccPos)
    /\ UNCHANGED <<cd, call, ret, rules, metal_only, rc, flt>>

InitAccept ==
    /\ cd \in CNHDiagrams
    /\ flt \in Filters
    /\ acc = AccIdle
    /\ call = NoCall /\ ret = NoOutcome
    /\ rules = <<>> /\ metal_only = FALSE /\ rc = RcIdle

NextAccept == AcceptFunction \/ AcceptInclusion \/ AcceptExclusion \/ AcceptReturn

SpecAccept == InitAccept /\ [][NextAccept]_vars

----------------------------------------------------------------------------
(* Actions: containment *)

CallContains ==
    /\ call.op = "none"
    /\ \E subg \in SmallPatterns :
          /\ call' = [op |-> "contains_subgraph", subg |-> subg]
          /\ ret' = Return(contains_subgraph(cd, subg))
    /\ UNCHANGED <<cd, rules, metal_only, rc, flt, acc>>

InitEmpty ==
    /\ cd = EmptyDiagram
    /\ call = NoCall /\ ret = NoOutcome
    /\ rules = <<>> /\ metal_only = FALSE /\ rc = RcIdle
    /\ flt = NoFilter /\ acc = AccIdle

NextContains == AddAtom(<<"C", "N", "H">>, {0}, MaxNodes) \/ AddBond({FALSE}) \/ CallContains

SpecContains == InitEmpty /\ [][NextContains]_vars

----------------------------------------------------------------------------
(* Actions: the rule compiler *)

\* the rule lines the model compiles, one sequence of atoms each
LinePool ==
    { \* "line graph inclusion: any C-N-H,"
      <<"line", " ", "graph", " ", "inclusion", ":", " ", "any", " ",
        "C", "-", "N", "-", "H", ",">>,
      \* " line graph exclusion: any C-H or N-H"
      <<" ", "line", " ", "graph", " ", "exclusion", ":", " ", "any", " ",
        "C", "-", "H", " ", "or", " ", "N", "-", "H">>,
      \* "neighbor graph exclusion: any *Fe has neighbours O;O;O,"
      <<"neighbor", " ", "graph", " ", "exclusion", ":", " ", "any", " ", "*", "Fe", " ",
        "has", " ", "neighbours", " ", "O", ";", "O", ";", "O", ",">>,
      \* "neighbor graph inclusion: any *Fe has neighbours O;O;O (*=center)"
      <<"neighbor", " ", "graph", " ", "inclusion", ":", " ", "any", " ", "*", "Fe", " ",
        "has", " ", "neighbours", " ", "O", ";", "O", ";", "O", " ",
        "(", "*", "=", "center", ")">>,
      \* "line graph exclusion: any M-Cl,"
      <<"line", " ", "graph", " ", "exclusion", ":", " ", "any", " ", "M", "-", "Cl", ",">>,
      \* "line graph inclusion: any M-O,"
      <<"line", " ", "graph", " ", "inclusion", ":", " ", "any", " ", "M", "-", "O", ",">>,
      \* ""
      <<>>,
      \* "line graph any C-H,"
      <<"line", " ", "graph", " ", "any", " ", "C", "-", "H", ",">>,
      \* "graph inclusion: any C-H,"
      <<"graph", " ", "inclusion", ":", " ", "any", " ", "C", "-", "H", ",">>,
      \* "line graph any CNH"
      <<"line", " ", "graph", " ", "any", " ", "C", "N", "H">>,
      \* "line graph inclusion: any CNH,"
      <<"line", " ", "graph", " ", "inclusion", ":", " ", "any", " ", "C", "N", "H", ",">>,
      \* "neighbor graph inclusion: any Fe has neighbours O;O,"
      <<"neighbor", " ", "graph", " ", "inclusion", ":", " ", "any", " ", "Fe", " ",
        "has", " ", "neighbours", " ", "O", ";", "O", ",">>,
      \* "neighbor graph exclusion: any *Fe has neighbours O,"
      <<"neighbor", " ", "graph", " ", "exclusion", ":", " ", "any", " ", "*", "Fe", " ",
        "has", " ", "neighbours", " ", "O", ",">> }

\* "\n".join(lines)
RECURSIVE join_lines(_)
join_lines(lines) ==
    IF Len(lines) = 1 THEN lines[1]
    ELSE lines[1] \o <<"\n">> \o join_lines(Tail(lines))

RuleTexts == {join_lines(ls) : ls \in BSeq(LinePool, MaxLines) \ {<<>>}}

\* lines 76-90 of generate_subgraph_rules, called by from_functions_and_rules
\* (line 44)
GenerateStart ==
    /\ rc.pc = "idle"
    /\ rc' = compile_start(rules, metal_only)
    /\ UNCHANGED <<cd, call, ret, rules, metal_only, flt, acc>>

\* lines 91-109: one turn of the loop; it may raise
CompileRule ==
    /\ rc.pc = "loop" /\ rc.i <= Len(rc.rules)
    /\ rc' = compile_rule(rc)
    /\ UNCHANGED <<cd, call, ret, rules, metal_only, flt, acc>>

\* line 110
GenerateReturn ==
    /\ rc.pc = "loop" /\ rc.i > Len(rc.rules)
    /\ rc' = compile_return(rc)
    /\ UNCHANGED <<cd, call, ret, rules, metal_only, flt, acc>>

\* line 45: cls(in_rules, ex_rules, filter_functions), reached only when
\* generate_subgraph_rules has returned
FromFunctionsAndRules ==
    /\ rc.pc = "returned" /\ ~ flt.made
    /\ \E fns \in BSeq(FunctionPool, 1) :
          flt' = ChemicalDiagramFilter(rc.out.value.in_subgs, rc.out.value.ex_subgs, fns)
    /\ UNCHANGED <<cd, call, ret, rules, metal_only, rc, acc>>

InitRules ==
    /\ rules \in RuleTexts
    /\ metal_only \in BOOLEAN
    /\ rc = RcIdle
    /\ cd = EmptyDiagram /\ call = NoCall /\ ret = NoOutcome
    /\ flt = NoFilter /\ acc = AccIdle

NextRules == GenerateStart \/ CompileRule \/ GenerateReturn \/ FromFunctionsAndRules

SpecRules == InitRules /\ [][NextRules]_vars

----------------------------------------------------------------------------
(* Actions: the chemical predicates *)

CallOrganic ==
    /\ call.op = "none"
    /\ \E amine \in BOOLEAN :
          /\ call' = [op |-> "is_organic_cation_like", is_amine_like |-> amine]
          /\ ret' = is_organic_cation_like(cd, amine)
    /\ UNCHANGED <<cd, rules, metal_only, rc, flt, acc>>

CallOxideOrHalide ==
    /\ call.op = "none"
    /\ \E oxide \in BOOLEAN, m_only \in BOOLEAN, anion \in BOOLEAN :
          /\ call' = [op |-> "is_metal_oxide_or_halide", metal_oxide |-> oxide,
                      metal_only |-> m_only, assume_anion |-> anion]
          /\ ret' = is_metal_oxide_or_halide(cd, oxide, m_only, anion)
    /\ UNCHANGED <<cd, rules, metal_only, rc, flt, acc>>

OrganicSymbols == <<"C", "H", "N", "O", "Fe">>

OrganicCharges == {-1, 0, 1, 2}

NextOrganic ==
    \/ AddAtom(OrganicSymbols, OrganicCharges, MaxOrganicNodes)
    \/ AddBond(BOOLEAN)
    \/ CallOrganic

SpecOrganic == InitEmpty /\ [][NextOrganic]_vars

OxideSymbols == <<"Fe", "Si", "O", "Cl">>

OxideCharges == {-1, 0, 1}

NextOxide ==
    \/ AddAtom(OxideSymbols, OxideCharges, MaxOxideNodes)
    \/ AddBond(BOOLEAN)
    \/ CallOxideOrHalide

SpecOxide == InitEmpty /\ [][NextOxide]_vars

MixedSymbols == <<"C", "H", "O", "Fe">>

NextPrecondition ==
    \/ AddAtom(MixedSymbols, OxideCharges, MaxNodes)
    \/ AddBond(BOOLEAN)
    \/ CallOrganic
    \/ CallOxideOrHalide

SpecPrecondition == InitEmpty /\ [][NextPrecondition]_vars

----------------------------------------------------------------------------
(* Actions: the methods of ChemicalDiagram, called on the diagram built *)

Identifiers == {"ABCDEF", "None"}

DiagramSymbols == <<"C", "Fe", "H", "O">>

DiagramCharges == {-1, 0, 1}

CallGetComponents ==
    /\ call.op = "none"
    /\ \E id \in Identifiers :
          /\ call' = [op |-> "get_components", identifier |-> id]
          /\ ret' = Return(get_components(ChemicalDiagram(cd, id)))
    /\ UNCHANGED <<cd, rules, metal_only, rc, flt, acc>>

CallGetNodesNotAllPoly ==
    /\ call.op = "none"
    /\ call' = [op |-> "get_nodes_not_all_poly"]
    /\ ret' = Return(get_nodes_not_all_poly(cd))
    /\ UNCHANGED <<cd, rules, metal_only, rc, flt, acc>>

CallLocalGraph ==
    /\ call.op = "none"
    /\ call' = [op |-> "local_graph"]
    /\ ret' = Return(local_graph(cd))
    /\ UNCHANGED <<cd, rules, metal_only, rc, flt, acc>>

\* the values given for allowed_centers: the default and two others
CenterChoices == {allowed_centers, {"C", "Fe", "O"}, {"H"}}

CallGetPbus ==
    /\ call.op = "none"
    /\ \E id \in Identifiers, centers \in CenterChoices :
          /\ call' = [op |-> "get_pbus_from_diagram", identifier |-> id,
                      allowed_centers |-> centers]
          /\ ret' = Return(get_pbus_from_diagram(ChemicalDiagram(cd, id), centers))
    \* lines 253-254 and 274: every graph the method writes to is a copy
    /\ UNCHANGED <<cd, rules, metal_only, rc, flt, acc>>

CallTotalCharge ==
    /\ call.op = "none"
    /\ call' = [op |-> "total_charge"]
    /\ ret' = Return(total_charge(cd))
    /\ UNCHANGED <<cd, rules, metal_only, rc, flt, acc>>

CallGetFormula ==
    /\ call.op = "none"
    /\ call' = [op |-> "get_formula"]
    /\ ret' = Return(get_formula(cd))
    /\ UNCHANGED <<cd, rules, metal_only, rc, flt, acc>>

CallCheckSymbols ==
    /\ call.op = "none"
    /\ call' = [op |-> "check_symbols"]
    /\ ret' = Return(check_symbols(cd))
    /\ UNCHANGED <<cd, rules, metal_only, rc, flt, acc>>

CallGetElementList ==
    /\ call.op = "none"
    /\ call' = [op |-> "get_element_list"]
    /\ ret' = Return(get_element_list(cd))
    /\ UNCHANGED <<cd, rules, metal_only, rc, flt, acc>>

NextDiagram ==
    \/ CallGetElementList
    \/ AddAtom(DiagramSymbols, DiagramCharges, MaxDiagramNodes)
    \/ AddBond(BOOLEAN)
    \/ CallCheckSymbols
    \/ CallTotalCharge
    \/ CallGetFormula
    \/ CallGetPbus
    \/ CallGetComponents
    \/ CallGetNodesNotAllPoly
    \/ CallLocalGraph

SpecDiagram == InitEmpty /\ [][NextDiagram]_vars

----------------------------------------------------------------------------
(* Actions: hash and equality of two diagrams *)

\* the graph g with node n numbered pi[n]
relabel(g, pi) ==
    LET inv == [m \in {pi[n] : n \in g.nodes} |-> CHOOSE n \in g.nodes : pi[n] = m]
        E == {{pi[u] : u \in e} : e \in g.edges}
    IN  [nodes |-> {pi[n] : n \in g.nodes},
         symbol |-> [m \in {pi[n] : n \in g.nodes} |-> g.symbol[inv[m]]],
         charge |-> [m \in {pi[n] : n \in g.nodes} |-> g.charge[inv[m]]],
         edges |-> E,
         polymeric |-> [e \in E |-> g.polymeric[{inv[m] : m \in e}]]]

\* g with other attributes: every charge raised by one, every bond's
\* polymeric flag turned over, the symbol of the lowest node made "N"
with_charges(g, on) ==
    IF on THEN [g EXCEPT !.charge = [n \in g.nodes |-> g.charge[n] + 1]] ELSE g

with_polymeric(g, on) ==
    IF on THEN [g EXCEPT !.polymeric = [e \in g.edges |-> ~ g.polymeric[e]]] ELSE g

with_symbol(g, on) ==
    IF on /\ g.nodes # {}
    THEN [g EXCEPT !.symbol = [n \in g.nodes |-> IF n = Min(g.nodes) THEN "N" ELSE g.symbol[n]]]
    ELSE g

CallEq ==
    /\ call.op = "none"
    /\ \E pi \in Permutations(cd.nodes), ch, po, sy \in BOOLEAN, id \in Identifiers :
          LET D == ChemicalDiagram(cd, "ABCDEF")
              other == ChemicalDiagram(
                           with_symbol(with_polymeric(with_charges(relabel(cd, pi), ch), po), sy),
                           id)
          IN  /\ call' = [op |-> "__eq__", other |-> other]
              /\ ret' = Return([hash_equal |-> diagram_hash(D) = diagram_hash(other),
                                eq |-> diagram_eq(D, other)])
    /\ UNCHANGED <<cd, rules, metal_only, rc, flt, acc>>

HashSymbols == <<"C", "H", "O">>

NextHash ==
    \/ AddAtom(HashSymbols, {0, 1}, MaxNodes)
    \/ AddBond(BOOLEAN)
    \/ CallEq

SpecHash == InitEmpty /\ [][NextHash]_vars

----------------------------------------------------------------------------
(* Actions: the converter, one atom and one bond of the entry at a time *)

Converting == call.op = "from_csd_entry_to_diagram"

\* b12.type().value(): the bond types of an entry, 1 single and 2 double
BondTypes == {1, 2}

\* the graph with the bondtype attribute add_edge gives each edge (lines
\* 103-107); the library reads it nowhere
with_bondtype(g, bondtype) ==
    [nodes |-> g.nodes, symbol |-> g.symbol, charge |-> g.charge,
     edges |-> g.edges, polymeric |-> g.polymeric, bondtype |-> bondtype]

ConvertStart ==
    /\ call.op = "none" /\ cd = EmptyDiagram
    /\ \E id \in Identifiers :
          call' = [op |-> "from_csd_entry_to_diagram", pc |-> "atoms",
                   identifier |-> id, labels |-> <<>>, bondtype |-> <<>>]
    /\ UNCHANGED <<cd, ret, rules, metal_only, rc, flt, acc>>

\* lines 51-96: the next atom, with the symbol and the charge label the
\* entry gives it.  Atoms come in the order of syms, as in AddAtom.
ConvertAtom(syms, labels, max) ==
    /\ Converting /\ call.pc = "atoms"
    /\ Cardinality(cd.nodes) < max
    /\ \E k \in 1..Len(syms), charge_label \in labels :
          LET i == Cardinality(cd.nodes)
              charge == charge_of_label(charge_label)
          IN  /\ i > 0 => \E j \in 1..k : syms[j] = cd.symbol[i - 1]
              /\ IF charge.exc # "none"
                 THEN /\ call' = [call EXCEPT !.pc = "raised",
                                              !.labels = Append(@, charge_label)]
                      /\ ret' = charge
                      /\ cd' = cd
                 ELSE /\ call' = [call EXCEPT !.labels = Append(@, charge_label)]
                      /\ cd' = add_node(cd, i, syms[k], charge.value)
                      /\ ret' = ret
    /\ UNCHANGED <<rules, metal_only, rc, flt, acc>>

\* lines 97-107: the next bonded pair, in the order of the two loops
ConvertBond ==
    /\ Converting /\ call.pc \in {"atoms", "bonds"}
    /\ \E i, j \in cd.nodes, p \in BOOLEAN, bondtype \in BondTypes :
          /\ i < j
          /\ \A e \in cd.edges :
                LET a == Min(e)
                    b == CHOOSE x \in e : x # a
                IN  a < i \/ (a = i /\ b < j)
          /\ bondtype # 1 =>
                Cardinality({e \in cd.edges : call.bondtype[e] # 1}) < MaxMultiple
          /\ cd' = add_edge(cd, i, j, p)
          /\ call' = [call EXCEPT !.pc = "bonds",
                                  !.bondtype = ({i, j} :> bondtype) @@ @]
    /\ UNCHANGED <<ret, rules, metal_only, rc, flt, acc>>

\* lines 109-132: the correction, and the diagram returned
ConvertReturn ==
    /\ Converting /\ call.pc \in {"atoms", "bonds"}
    /\ call' = [call EXCEPT !.pc = "returned"]
    /\ ret' = Return(ChemicalDiagram(oh_correction(with_bondtype(cd, call.bondtype)),
                                     call.identifier))
    /\ UNCHANGED <<cd, rules, metal_only, rc, flt, acc>>

LabelChars == {"1", "2", "+", "-", "x"}

LabelPool == BSeq(LabelChars, MaxLabelLen)

NextCharge ==
    \/ ConvertStart
    \/ ConvertAtom(<<"Fe", "O">>, LabelPool, MaxLabelledAtoms)
    \/ ConvertBond
    \/ ConvertReturn

SpecCharge == InitEmpty /\ [][NextCharge]_vars

NextCorrection ==
    \/ ConvertStart
    \/ ConvertAtom(<<"D", "Fe", "H", "O">>, {<<>>}, MaxConverterAtoms)
    \/ ConvertBond
    \/ ConvertReturn

SpecCorrection == InitEmpty /\ [][NextCorrection]_vars

----------------------------------------------------------------------------
(* Actions: a filter compiled from rule text, then applied to a diagram *)

MacroLinePool ==
    { \* "line graph inclusion: any M-O,"
      <<"line", " ", "graph", " ", "inclusion", ":", " ", "any", " ", "M", "-", "O", ",">>,
      \* "line graph exclusion: any M-Cl,"
      <<"line", " ", "graph", " ", "exclusion", ":", " ", "any", " ", "M", "-", "Cl", ",">>,
      \* "line graph inclusion: any Fe-O,"
      <<"line", " ", "graph", " ", "inclusion", ":", " ", "any", " ", "Fe", "-", "O", ",">>,
      \* "neighbor graph exclusion: any *Fe has neighbours O;O,"
      <<"neighbor", " ", "graph", " ", "exclusion", ":", " ", "any", " ", "*", "Fe", " ",
        "has", " ", "neighbours", " ", "O", ";", "O", ",">> }

MacroTexts == {join_lines(ls) : ls \in BSeq(MacroLinePool, MaxLines) \ {<<>>}}

\* a graph with the atoms of syms, numbered from 0, all without charge
atoms_of(syms) ==
    [nodes |-> 0..(Len(syms) - 1),
     symbol |-> [n \in 0..(Len(syms) - 1) |-> syms[n + 1]],
     charge |-> [n \in 0..(Len(syms) - 1) |-> 0],
     edges |-> {}, polymeric |-> <<>>]

\* diagrams with and without metals, one with an atom of symbol "M"
MacroDiagrams ==
    { EmptyDiagram,
      atoms_of(<<"O">>),
      with_edges(atoms_of(<<"Fe", "O">>), {{0, 1}}),
      with_edges(atoms_of(<<"Fe", "O", "O">>), {{0, 1}, {0, 2}}),
      with_edges(atoms_of(<<"Fe", "Cl", "O">>), {{0, 1}, {0, 2}}),
      with_edges(atoms_of(<<"Li", "O", "Fe">>), {{0, 1}, {1, 2}}),
      with_edges(atoms_of(<<"M", "O", "Fe">>), {{0, 1}, {1, 2}}) }

InitMacro ==
    /\ rules \in MacroTexts
    /\ metal_only \in BOOLEAN
    /\ cd \in MacroDiagrams
    /\ rc = RcIdle
    /\ call = NoCall /\ ret = NoOutcome
    /\ flt = NoFilter /\ acc = AccIdle

NextMacro ==
    \/ GenerateStart
    \/ CompileRule
    \/ GenerateReturn
    \/ FromFunctionsAndRules
    \/ AcceptFunction
    \/ AcceptInclusion
    \/ AcceptExclusion
    \/ AcceptReturn

SpecMacro == InitMacro /\ [][NextMacro]_vars

----------------------------------------------------------------------------
(* Actions: the chemical predicates, applied to the components of the     *)
(* diagram built (examples/export_oxide.py, cdf_function_0)                *)

\* cdf_function_0(cd): for each component the oxide predicate and then the
\* amine predicate; the first exception ends the loop
cdf_function_0(D) ==
    LET cs == get_components(D)
        molike == [k \in DOMAIN cs |->
                      is_metal_oxide_or_halide(cs[k].graph, TRUE, FALSE, TRUE)]
        aminelike == [k \in DOMAIN cs |-> is_organic_cation_like(cs[k].graph, TRUE)]
        raised == {k \in DOMAIN cs : molike[k].exc # "none" \/ aminelike[k].exc # "none"}
        n_molike == Cardinality({k \in DOMAIN cs : molike[k].value})
        n_aminelike == Cardinality({k \in DOMAIN cs : aminelike[k].value})
    IN  IF raised # {}
        THEN LET k == Min(raised)
             IN  IF molike[k].exc # "none" THEN molike[k] ELSE aminelike[k]
        ELSE Return(n_aminelike >= 1 /\ n_molike >= 1)

CallCdfFunction0 ==
    /\ call.op = "none"
    /\ \E id \in Identifiers :
          /\ call' = [op |-> "cdf_function_0", identifier |-> id]
          /\ ret' = cdf_function_0(ChemicalDiagram(cd, id))
    /\ UNCHANGED <<cd, rules, metal_only, rc, flt, acc>>

\* one turn of the loop: the amine or organic predicate on component k
CallOrganicOnComponent ==
    /\ call.op = "none"
    /\ \E id \in Identifiers, amine \in BOOLEAN :
          LET cs == get_components(ChemicalDiagram(cd, id))
          IN  \E k \in DOMAIN cs :
                 /\ call' = [op |-> "scd.is_organic_cation_like", identifier |-> id,
                             component |-> k, is_amine_like |-> amine]
                 /\ ret' = is_organic_cation_like(cs[k].graph, amine)
    /\ UNCHANGED <<cd, rules, metal_only, rc, flt, acc>>

\* one turn of the loop: the oxide or halide predicate on component k
CallOxideOrHalideOnComponent ==
    /\ call.op = "none"
    /\ \E id \in Identifiers, oxide \in BOOLEAN, m_only \in BOOLEAN, anion \in BOOLEAN :
          LET cs == get_components(ChemicalDiagram(cd, id))
          IN  \E k \in DOMAIN cs :
                 /\ call' = [op |-> "scd.is_metal_oxide_or_halide", identifier |-> id,
                             component |-> k, metal_oxide |-> oxide,
                             metal_only |-> m_only, assume_anion |-> anion]
                 /\ ret' = is_metal_oxide_or_halide(cs[k].graph, oxide, m_only, anion)
    /\ UNCHANGED <<cd, rules, metal_only, rc, flt, acc>>

ComponentSymbols == <<"C", "H", "N", "O", "Fe">>

ComponentCharges == {-1, 0, 1}

NextComponents ==
    \/ AddAtom(ComponentSymbols, ComponentCharges, MaxNodes)
    \/ AddBond(BOOLEAN)
    \/ CallOrganicOnComponent
    \/ CallOxideOrHalideOnComponent
    \/ CallCdfFunction0

SpecComponents == InitEmpty /\ [][NextComponents]_vars

----------------------------------------------------------------------------
(* Properties of the filter engine (SpecAccept) *)

AllPass(f, d) ==
    /\ \A k \in 1..Len(f.cd_filter_functions) : f.cd_filter_functions[k].result
    /\ \A k \in 1..Len(f.inclusion_subgraphs) : contains_subgraph(d, f.inclusion_subgraphs[k])
    /\ \A k \in 1..Len(f.exclusion_subgraphs) : ~ contains_subgraph(d, f.exclusion_subgraphs[k])

Schedule(f) ==
    [k \in 1..Len(f.cd_filter_functions) |-> [kind |-> "function", i |-> k]]
    \o [k \in 1..Len(f.inclusion_subgraphs) |-> [kind |-> "inclusion", i |-> k]]
    \o [k \in 1..Len(f.exclusion_subgraphs) |-> [kind |-> "exclusion", i |-> k]]

Passes(entry) == IF entry.kind = "exclusion" THEN ~ entry.result ELSE entry.result

\* C2: the checks accept has made are, at every moment, the first ones of
\* the schedule (functions in list order, then inclusion patterns, then
\* exclusion patterns); every check but the last one made has passed; and
\* a failing check is the last one: accept has returned false with it.
C2_OrderAndShortCircuit ==
    LET L == acc.log
        S == Schedule(flt)
    IN  /\ Len(L) <= Len(S)
        /\ \A k \in 1..Len(L) : L[k].kind = S[k].kind /\ L[k].i = S[k].i
        /\ \A k \in 1..(Len(L) - 1) : Passes(L[k])
        /\ (Len(L) > 0 /\ ~ Passes(L[Len(L)])) =>
               (acc.pc = "returned" /\ acc.out = Return(FALSE))
        /\ acc.out = Return(TRUE) => Len(L) = Len(S)

\* the filter's first function has failed, its second one would pass and
\* has not been called: accept has returned false after one check
C2_Witness ==
    /\ Len(flt.cd_filter_functions) = 2
    /\ ~ flt.cd_filter_functions[1].result /\ flt.cd_filter_functions[2].result
    /\ Len(flt.inclusion_subgraphs) >= 1 /\ Len(flt.exclusion_subgraphs) >= 1
    /\ acc.pc = "returned" /\ acc.out = Return(FALSE)
    /\ Len(acc.log) = 1

----------------------------------------------------------------------------
(* Properties of containment (SpecContains) *)

\* an injective map of g2's nodes to g1's that keeps symbols and sends
\* every edge of g2 to an edge of g1
HasMonomorphism(g1, g2) ==
    \E f \in [g2.nodes -> g1.nodes] :
        /\ \A p, q \in g2.nodes : p # q => f[p] # f[q]
        /\ \A p \in g2.nodes : g1.symbol[f[p]] = g2.symbol[p]
        /\ \A p, q \in g2.nodes : {p, q} \in g2.edges => {f[p], f[q]} \in g1.edges

\* C3: contains_subgraph(pattern) is true if and only if an injective,
\* symbol-preserving map sends every pattern edge to a diagram edge; more
\* edges between the mapped nodes do not prevent a match.
C3_ContainsIffMonomorphism ==
    call.op = "contains_subgraph" =>
        (ret.value <=> HasMonomorphism(cd, call.subg))

----------------------------------------------------------------------------
(* Properties of the rule compiler (SpecRules) *)

SameGraph(g, h) == g.nodes = h.nodes /\ g.symbol = h.symbol /\ g.edges = h.edges

TextLines == split_on(rules, "\n")

Stripped(line) == strip(strip(line, " "), ",")

MacroRule ==
    <<"line", " ", "graph", " ", "exclusion", ":", " ", "any", " ", "M", "-", "Cl", ",">>

\* C4: the single rule "line graph exclusion: any M-Cl," compiles to no
\* inclusion pattern and to exactly one exclusion pattern per metal symbol
\* (per metal or metalloid symbol when metal_only is false), each the path
\* {metal}-Cl; no pattern has a node with the symbol "M".
C4_MacroExpansion ==
    (rules = MacroRule /\ rc.pc \in {"returned", "raised"}) =>
        /\ rc.pc = "returned"
        /\ LET ms == IF metal_only THEN Metals ELSE MetalAndMetalloids
               ex == rc.out.value.ex_subgs
           IN  /\ rc.out.value.in_subgs = <<>>
               /\ Len(ex) = Cardinality(ms)
               /\ \A m \in ms :
                     \E k \in 1..Len(ex) : SameGraph(ex[k], gen_line_graph(<<m, "Cl">>))
               /\ \A k \in 1..Len(ex) : \A n \in ex[k].nodes : ex[k].symbol[n] # "M"

HasMarker(r) == IsIn(<<"line", " ", "graph">>, r) \/ IsIn(<<"neighbor", " ", "graph">>, r)

HasTag(r) == IsIn(<<"inclusion">>, r) \/ IsIn(<<"exclusion">>, r)

Malformed(line) == ~ HasMarker(Stripped(line)) \/ ~ HasTag(Stripped(line))

\* C24: generate_subgraph_rules ends either by returning the two pattern
\* lists or by raising the malformed-rule error (ValueError), also for a
\* "line graph" line without a word holding "-" and a "neighbor graph"
\* line without a word holding "*" or ";"; it fails in no other way.
C24_ReturnsOrValueError ==
    /\ rc.pc = "returned" => rc.out.exc = "none"
    /\ rc.pc = "raised" => rc.out.exc = "ValueError"

\* C9: when a line of the rule text holds neither "line graph" nor
\* "neighbor graph", or neither "inclusion" nor "exclusion", the call does
\* not return and no filter is made, and the exception it ends with is
\* the malformed-rule error (ValueError).
C9_MalformedRuleRaises ==
    (\E k \in 1..Len(TextLines) : Malformed(TextLines[k])) =>
        /\ rc.pc # "returned"
        /\ ~ flt.made
        /\ rc.pc = "raised" => rc.out.exc = "ValueError"

StartsWithStar(w) == w # <<>> /\ Head(w) = "*"

\* a line of the grammar: a marker, a tag and the words its shape needs
WellFormed(line) ==
    LET r == Stripped(line)
    IN  /\ HasMarker(r) /\ HasTag(r)
        /\ IF IsIn(<<"line", " ", "graph">>, r)
           THEN SelectSeq(split(r), HasDash) # <<>>
           ELSE /\ SelectSeq(split(r), StartsWithStar) # <<>>
                /\ SelectSeq(split(r), HasSemi) # <<>>

Spell(parts) == [k \in 1..Len(parts) |-> Concat(parts[k])]

\* the pattern the grammar gives a well-formed line
GrammarPattern(line) ==
    LET r == Stripped(line)
    IN  IF IsIn(<<"line", " ", "graph">>, r)
        THEN gen_line_graph(Spell(split_on(Last(SelectSeq(split(r), HasDash)), "-")))
        ELSE gen_star_graph(Concat(Tail(Last(SelectSeq(split(r), StartsWithStar)))),
                            Spell(split_on(Last(SelectSeq(split(r), HasSemi)), ";")))

IsInclusionLine(line) == IsIn(<<"inclusion">>, Stripped(line))

IsExclusionLine(line) == ~ IsIn(<<"inclusion">>, Stripped(line))

SameGraphs(gs, hs) ==
    Len(gs) = Len(hs) /\ \A k \in 1..Len(gs) : SameGraph(gs[k], hs[k])

GrammarPatterns(lines) == [k \in 1..Len(lines) |-> GrammarPattern(lines[k])]

\* C10: when every line of the text is well-formed (and none uses the M-
\* macro), the call returns, and the inclusion and exclusion lists hold, in
\* line order, exactly one pattern per line: the path over the symbols of
\* the last word with "-", or the star whose center is the last word
\* starting with "*" (the "*" dropped) and whose neighbours are the symbols
\* of the last word with ";".
C10_OnePatternPerLine ==
    (/\ rc.pc \in {"returned", "raised"}
     /\ \A k \in 1..Len(TextLines) :
           WellFormed(TextLines[k]) /\ ~ IsIn(<<"M", "-">>, TextLines[k])) =>
        /\ rc.pc = "returned"
        /\ SameGraphs(rc.out.value.in_subgs,
                      GrammarPatterns(SelectSeq(TextLines, IsInclusionLine)))
        /\ SameGraphs(rc.out.value.ex_subgs,
                      GrammarPatterns(SelectSeq(TextLines, IsExclusionLine)))

----------------------------------------------------------------------------
(* Properties of the chemical predicates (SpecOxide, SpecOrganic,          *)
(* SpecPrecondition)                                                       *)

Connected(d) == d.nodes # {} /\ \A u \in d.nodes : Reach(d, {u}) = d.nodes

Disconnected(d) == \E u, v \in d.nodes : v \notin Reach(d, {u})

MetalSet(m_only) == IF m_only THEN Metals ELSE Metals \cup Metalloids

HasMetalHalogenBond(d, m_only) ==
    \E u, v \in d.nodes :
        /\ {u, v} \in d.edges
        /\ d.symbol[u] \in MetalSet(m_only)
        /\ d.symbol[v] \in {"F", "Cl", "Br", "I"}

\* C5: with metal_oxide false, on a connected diagram that has a metal (or
\* metal/metalloid) symbol and meets the charge condition, the result is
\* true if and only if some such atom is bonded to an F, Cl, Br or I atom.
C5_HalideIffMetalHalogenBond ==
    (/\ call.op = "is_metal_oxide_or_halide" /\ ~ call.metal_oxide
     /\ Connected(cd)
     /\ symbol_values(cd) \cap MetalSet(call.metal_only) # {}
     /\ call.assume_anion => total_charge(cd) < 0) =>
        /\ ret.exc = "none"
        /\ ret.value <=> HasMetalHalogenBond(cd, call.metal_only)

HCount(d, n) == Cardinality({m \in d.nodes : {n, m} \in d.edges /\ d.symbol[m] = "H"})

OrganicCation(d, amine) ==
    /\ {"C", "H"} \subseteq symbol_values(d)
    /\ symbol_values(d) \subseteq
          (IF amine THEN {"C", "N", "H"}
           ELSE {"C", "N", "H", "F", "Cl", "Br", "I", "S", "O"})
    /\ total_charge(d) > 0
    /\ \A n \in d.nodes : d.charge[n] >= 0
    /\ \A n \in d.nodes : d.charge[n] > 0 => d.charge[n] <= HCount(d, n)
    /\ amine =>
          /\ contains_subgraph(d, gen_line_graph(<<"C", "N", "H">>))
          /\ \A n \in d.nodes : d.charge[n] > 0 => d.symbol[n] = "N"

C7_WitnessRefused ==
    /\ call.op = "is_organic_cation_like" /\ ~ call.is_amine_like
    /\ ret = Return(FALSE)
    /\ {"C", "H"} \subseteq symbol_values(cd)
    /\ symbol_values(cd) \subseteq {"C", "N", "H"}
    /\ total_charge(cd) > 0
    /\ \E n \in cd.nodes : cd.symbol[n] = "N" /\ cd.charge[n] = 1 /\ HCount(cd, n) = 0
    /\ \A n \in cd.nodes : cd.symbol[n] # "N" => cd.charge[n] = 0

\* C8: either predicate, called on a diagram whose graph is not connected,
\* ends in the assertion failure and never in a boolean, whatever its
\* other arguments and the diagram's symbols and charges.
C8_DisconnectedAsserts ==
    (call.op \in {"is_organic_cation_like", "is_metal_oxide_or_halide"}
     /\ Disconnected(cd)) =>
        ret = Raise("AssertionError")

\* both predicates can be called on a disconnected diagram that has the
\* symbols and the charge they look for; this is one such call
C8_Witness ==
    /\ call.op = "is_metal_oxide_or_halide"
    /\ Disconnected(cd)
    /\ "Fe" \in symbol_values(cd) /\ total_charge(cd) < 0
    /\ ret = Raise("AssertionError")

----------------------------------------------------------------------------
(* Properties of ChemicalDiagram (SpecDiagram) *)

ComponentNodes(cs) == [k \in 1..Len(cs) |-> cs[k].graph.nodes]

IsPartition(parts, S) ==
    /\ \A k \in 1..Len(parts) : parts[k] # {}
    /\ \A k, l \in 1..Len(parts) : k # l => parts[k] \cap parts[l] = {}
    /\ UNION {parts[k] : k \in 1..Len(parts)} = S

SumLen(cs) == SumOver(1..Len(cs), [k \in 1..Len(cs) |-> diagram_len(cs[k])])

\* C11: the components get_components returns partition the node set of
\* the full graph, and the sum of len(c) over them is the number of nodes
\* of the full graph, also when some atoms have only polymeric bonds.
C11_ComponentsPartitionAndCount ==
    call.op = "get_components" =>
        /\ IsPartition(ComponentNodes(ret.value), cd.nodes)
        /\ SumLen(ret.value) = Cardinality(cd.nodes)

\* C11, amended: the components partition the node set of the full graph,
\* and the sum of len(c) over them is the number of local atoms of the
\* diagram (those with no bond or with a non-polymeric bond), which is the
\* number of nodes exactly when no atom has only polymeric bonds.
C11_ComponentsPartitionLocalCount ==
    call.op = "get_components" =>
        /\ IsPartition(ComponentNodes(ret.value), cd.nodes)
        /\ SumLen(ret.value) =
              Cardinality({n \in cd.nodes :
                  EdgesAt(cd, n) = {} \/ \E e \in EdgesAt(cd, n) : ~ cd.polymeric[e]})
        /\ (SumLen(ret.value) = Cardinality(cd.nodes)) <=>
              (\A n \in cd.nodes :
                  EdgesAt(cd, n) = {} \/ \E e \in EdgesAt(cd, n) : ~ cd.polymeric[e])

\* get_components has returned two components, one of them made of atoms
\* that have only polymeric bonds
C11_Witness ==
    /\ call.op = "get_components"
    /\ ret.exc = "none" /\ Len(ret.value) = 2
    /\ \E k \in 1..2 : diagram_len(ret.value[k]) = 0
    /\ SumLen(ret.value) = 1

HasBond(d, n) == \E m \in d.nodes : {n, m} \in d.edges

HasSolidBond(d, n) == \E m \in d.nodes : {n, m} \in d.edges /\ ~ d.polymeric[{n, m}]

LocalAtoms(d) == {n \in d.nodes : ~ HasBond(d, n) \/ HasSolidBond(d, n)}

Centers(d, allowed) == {n \in LocalAtoms(d) : d.symbol[n] \in allowed}

\* the graph on the centers, with the bonds of d between them
CenterGraph(d, allowed) ==
    [nodes |-> Centers(d, allowed),
     edges |-> {e \in d.edges : e \subseteq Centers(d, allowed)}]

\* its connected components
Cores(d, allowed) ==
    {Reach(CenterGraph(d, allowed), {n}) : n \in Centers(d, allowed)}

\* K with every neighbour, in the full graph, of an atom of K
Extended(d, K) == K \cup {m \in d.nodes : \E n \in K : {n, m} \in d.edges}

\* C13: get_pbus_from_diagram returns one building unit per connected
\* component K of the local graph restricted to the allowed centers; the
\* unit's nodes are K and every neighbour of K in the full graph, its edges
\* those of the full graph between them, its identifier the diagram's; the
\* list is in non-increasing order of size, and empty when no atom is a
\* center.
C13_OneUnitPerCore ==
    call.op = "get_pbus_from_diagram" =>
        LET bus == ret.value
            cores == Cores(cd, call.allowed_centers)
        IN  /\ ret.exc = "none"
            /\ Len(bus) = Cardinality(cores)
            /\ \A K \in cores :
                  \E k \in 1..Len(bus) : bus[k].graph.nodes = Extended(cd, K)
            /\ \A k \in 1..Len(bus) :
                  /\ \E K \in cores : bus[k].graph.nodes = Extended(cd, K)
                  /\ bus[k].graph.edges = {e \in cd.edges : e \subseteq bus[k].graph.nodes}
                  /\ \A n \in bus[k].graph.nodes :
                        /\ bus[k].graph.symbol[n] = cd.symbol[n]
                        /\ bus[k].graph.charge[n] = cd.charge[n]
                  /\ \A e \in bus[k].graph.edges :
                        bus[k].graph.polymeric[e] = cd.polymeric[e]
                  /\ bus[k].identifier = call.identifier
            /\ \A k \in 1..(Len(bus) - 1) :
                  Cardinality(bus[k].graph.nodes) >= Cardinality(bus[k + 1].graph.nodes)
            /\ Centers(cd, call.allowed_centers) = {} => bus = <<>>

\* two units have been returned, the larger first although its core has
\* the higher node numbers, and it holds an atom that is not local
C13_Witness ==
    /\ call.op = "get_pbus_from_diagram"
    /\ ret.exc = "none" /\ Len(ret.value) = 2
    /\ Min(ret.value[1].graph.nodes) > Min(ret.value[2].graph.nodes)
    /\ Cardinality(ret.value[1].graph.nodes) > Cardinality(ret.value[2].graph.nodes)
    /\ ret.value[1].graph.nodes \ LocalAtoms(cd) # {}

\* the centers of the source diagram that a building unit holds
UnitCore(bu) == bu.graph.nodes \cap Centers(cd, call.allowed_centers)

UnitsOfCall ==
    call.op = "get_pbus_from_diagram" =>
        LET bus == ret.value
        IN  /\ \A k \in 1..Len(bus) :
                  /\ Connected(bus[k].graph)
                  /\ is_connected(bus[k].graph) = Return(TRUE)
                  /\ \E n \in bus[k].graph.nodes :
                        /\ cd.symbol[n] \in call.allowed_centers
                        /\ n \in LocalAtoms(cd)
                  /\ UnitCore(bus[k]) \in Cores(cd, call.allowed_centers)
            /\ \A k, l \in 1..Len(bus) :
                  k # l =>
                     /\ UnitCore(bus[k]) \cap UnitCore(bus[l]) = {}
                     /\ bus[k].graph.nodes \cap bus[l].graph.nodes
                           \cap (UnitCore(bus[k]) \cup UnitCore(bus[l])) = {}

SourceUnchanged ==
    (call.op = "none" /\ call'.op = "get_pbus_from_diagram") => cd' = cd

\* C22: every building unit get_pbus_from_diagram returns is connected and
\* holds an allowed-center atom that is local in the source diagram; the
\* cores of two units share no atom, and an atom two units share lies in
\* neither core; the call leaves the source diagram's graph as it was.
C22_UnitsConnectedCoresDisjoint == [] UnitsOfCall /\ [][SourceUnchanged]_vars

\* two units that share an atom outside their cores, next to a center that
\* is not local and so is no core
C22_Witness ==
    /\ call.op = "get_pbus_from_diagram"
    /\ call.allowed_centers = allowed_centers
    /\ Len(ret.value) = 2
    /\ ret.value[1].graph.nodes \cap ret.value[2].graph.nodes # {}
    /\ \E n \in cd.nodes : cd.symbol[n] \in allowed_centers /\ n \notin LocalAtoms(cd)

\* C14: total_charge is the sum of charge over the local atoms only, the
\* charges of atoms whose every bond is polymeric adding nothing; on the
\* diagram without atoms total_charge is 0, get_formula the empty string
\* and get_components the empty list, and none of them fails.
C14_ChargeOfLocalAtoms ==
    /\ call.op = "total_charge" =>
          /\ ret.exc = "none"
          /\ ret.value = SumOver(LocalAtoms(cd), cd.charge)
          /\ cd.nodes = {} => ret.value = 0
    /\ (call.op = "get_formula" /\ cd.nodes = {}) => ret = Return(<<>>)
    /\ (call.op = "get_components" /\ cd.nodes = {}) => ret = Return(<<>>)

\* total_charge has left out the charge of an atom that has only
\* polymeric bonds
C14_Witness ==
    /\ call.op = "total_charge"
    /\ \E n \in cd.nodes \ LocalAtoms(cd) : cd.charge[n] # 0
    /\ ret.value # SumOver(cd.nodes, cd.charge)

\* the three operations have been called on the diagram without atoms
C14_WitnessNoAtoms ==
    /\ call.op \in {"total_charge", "get_formula", "get_components"}
    /\ cd.nodes = {}
    /\ ret.exc = "none"

\* C19: check_symbols returns true exactly when every atom's symbol is in
\* the table of known elements, and false when some atom's symbol is not;
\* the numbers of the atoms play no part.
C19_CheckSymbols ==
    call.op = "check_symbols" =>
        /\ ret.exc = "none"
        /\ ret.value <=> (\A n \in cd.nodes : cd.symbol[n] \in all_elements)

ListCount(lst, k) == Cardinality({i \in DOMAIN lst : lst[i] = k})

SumCharge(cs) ==
    SumOver(1..Len(cs), [k \in 1..Len(cs) |-> total_charge(cs[k].graph)])

SumListCount(cs, sym) ==
    SumOver(1..Len(cs),
            [k \in 1..Len(cs) |-> ListCount(get_element_list(cs[k].graph), sym)])

\* C21: an atom is local in a diagram exactly when it is local in the
\* component get_components returns for it; the diagram's total charge is
\* the sum of the components' total charges, and each symbol occurs in the
\* diagram's element list as often as in the components' lists together.
C21_LocalByComponent ==
    call.op = "get_components" =>
        /\ \A k \in 1..Len(ret.value) : \A n \in ret.value[k].graph.nodes :
              n \in get_nodes_not_all_poly(cd)
                  <=> n \in get_nodes_not_all_poly(ret.value[k].graph)
        /\ total_charge(cd) = SumCharge(ret.value)
        /\ \A sym \in SeqToSet(SortedSymbols) :
              ListCount(get_element_list(cd), sym) = SumListCount(ret.value, sym)

\* two components, one of them with a charged atom that has only polymeric
\* bonds, so that the charge of all atoms and the total charge differ
C21_Witness ==
    /\ call.op = "get_components"
    /\ Len(ret.value) = 2
    /\ \E n \in cd.nodes :
          n \notin get_nodes_not_all_poly(cd) /\ cd.charge[n] # 0
    /\ total_charge(cd) # total_charge_of_graph(cd)
    /\ Len(get_element_list(cd)) < Cardinality(cd.nodes)

----------------------------------------------------------------------------
(* Properties of hash and equality (SpecHash) *)

\* g and h have the same symbols and bonds up to the numbers of the nodes
SameSymbolsAndBonds(g, h) ==
    \E f \in [g.nodes -> h.nodes] :
        /\ \A m \in h.nodes : \E n \in g.nodes : f[n] = m
        /\ \A n, m \in g.nodes : n # m => f[n] # f[m]
        /\ \A n \in g.nodes : h.symbol[f[n]] = g.symbol[n]
        /\ \A n, m \in g.nodes : ({n, m} \in g.edges) <=> ({f[n], f[m]} \in h.edges)

\* C15: two diagrams with the same symbols and bonds under different node
\* numbers have equal hashes and compare equal, whatever their bonds'
\* polymeric flags, their charges and their identifiers.
C15_HashOfSymbolsAndBonds ==
    (call.op = "__eq__" /\ SameSymbolsAndBonds(cd, call.other.graph)) =>
        /\ ret.exc = "none"
        /\ ret.value.hash_equal
        /\ ret.value.eq

\* a diagram has been compared with itself renumbered, with other charges,
\* flags and identifier, and found equal
C15_Witness ==
    /\ call.op = "__eq__"
    /\ Cardinality(cd.edges) = 2
    /\ \E n \in cd.nodes : call.other.graph.symbol[n] # cd.symbol[n]
    /\ \E e \in cd.edges : e \notin call.other.graph.edges
    /\ \E n \in cd.nodes : cd.charge[n] = 0 /\ \A m \in cd.nodes : call.other.graph.charge[m] # 0
    /\ \A e \in cd.edges : ~ cd.polymeric[e]
    /\ \A e \in call.other.graph.edges : call.other.graph.polymeric[e]
    /\ call.other.identifier # "ABCDEF"
    /\ SameSymbolsAndBonds(cd, call.other.graph)
    /\ ret.value.eq

\* two diagrams that differ in a symbol have been found unequal
C15_WitnessUnequal ==
    /\ call.op = "__eq__"
    /\ ~ SameSymbolsAndBonds(cd, call.other.graph)
    /\ ~ ret.value.eq

----------------------------------------------------------------------------
(* Properties of the converter (SpecCorrection, SpecCharge) *)

IsHydrogen(g, n) == g.symbol[n] \in {"H", "D"}

HeavyBonds(g, n) == {m \in g.nodes : {n, m} \in g.edges /\ ~ IsHydrogen(g, m)}

HydrogenBonds(g, n) == {m \in g.nodes : {n, m} \in g.edges /\ IsHydrogen(g, m)}

Corrected(g, n) ==
    /\ \A h \in HydrogenBonds(g, n) : g.polymeric[{n, h}]
    /\ \A m \in g.nodes : {n, m} \in g.edges => g.polymeric[{n, m}]
    /\ n \notin get_nodes_not_all_poly(g)

\* C16: in the diagram the converter returns, every oxygen whose every
\* bond to an atom other than H and D is polymeric has all its bonds to H
\* and D polymeric, so it has no non-polymeric bond and
\* get_nodes_not_all_poly leaves it out.
C16_OxygenCorrection ==
    (Converting /\ call.pc = "returned") =>
        LET g == ret.value.graph
        IN  \A n \in g.nodes :
               (g.symbol[n] = "O" /\ \A m \in HeavyBonds(g, n) : g.polymeric[{n, m}])
                   => Corrected(g, n)

\* C16, amended: the same of every oxygen that has at least one bond to an
\* atom other than H and D and whose every such bond is polymeric; an
\* oxygen bonded to H and D only keeps its bonds as the entry gives them.
C16_BoundOxygenCorrection ==
    (Converting /\ call.pc = "returned") =>
        LET g == ret.value.graph
        IN  /\ ret.exc = "none"
            /\ \A n \in g.nodes :
                  (/\ g.symbol[n] = "O"
                   /\ HeavyBonds(g, n) # {}
                   /\ \A m \in HeavyBonds(g, n) : g.polymeric[{n, m}])
                      => Corrected(g, n)
            /\ \A n \in g.nodes :
                  (g.symbol[n] = "O" /\ HeavyBonds(g, n) = {}) =>
                      \A h \in HydrogenBonds(g, n) : g.polymeric[{n, h}] = cd.polymeric[{n, h}]

\* an oxygen with two polymeric bonds to metals and a bond to H that the
\* entry gave as not polymeric has been corrected
C16_Witness ==
    /\ Converting /\ call.pc = "returned"
    /\ \E n \in cd.nodes :
          /\ cd.symbol[n] = "O"
          /\ Cardinality({m \in HeavyBonds(cd, n) : cd.symbol[m] = "Fe"}) = 2
          /\ \A m \in HeavyBonds(cd, n) : cd.polymeric[{n, m}]
          /\ \E h \in HydrogenBonds(cd, n) :
                ~ cd.polymeric[{n, h}] /\ ret.value.graph.polymeric[{n, h}]
          /\ n \notin get_nodes_not_all_poly(ret.value.graph)

IsOxygenHydrogenBond(g, e) ==
    \E n, h \in e : e = {n, h} /\ g.symbol[n] = "O" /\ IsHydrogen(g, h)

\* C23: the diagram the converter returns has the atoms, symbols, charges,
\* bonds and bond types of the entry; a bond's polymeric flag differs from
\* the entry's only on a bond between an oxygen and an H or D, and only
\* from false to true; an oxygen with no neighbour other than H and D keeps
\* the flags of all its bonds; and the correction applied to the returned
\* graph gives the same graph.
C23_CorrectionFrame ==
    (Converting /\ call.pc = "returned") =>
        LET g == ret.value.graph
        IN  /\ g.nodes = cd.nodes /\ g.symbol = cd.symbol /\ g.charge = cd.charge
            /\ g.edges = cd.edges /\ g.bondtype = call.bondtype
            /\ DOMAIN g.polymeric = cd.edges
            /\ \A e \in cd.edges :
                  g.polymeric[e] # cd.polymeric[e] =>
                     /\ ~ cd.polymeric[e] /\ g.polymeric[e]
                     /\ IsOxygenHydrogenBond(cd, e)
            /\ \A n \in cd.nodes :
                  (cd.symbol[n] = "O" /\ HeavyBonds(cd, n) = {}) =>
                     \A m \in cd.nodes :
                        {n, m} \in cd.edges => g.polymeric[{n, m}] = cd.polymeric[{n, m}]
            /\ oh_correction(g) = g

\* one hydrogen between two oxygens: the bond to the oxygen that is bound
\* to a metal by a polymeric bond has been made polymeric, the bond to the
\* oxygen with no other neighbour has not, and a double bond has stayed
C23_Witness ==
    /\ Converting /\ call.pc = "returned"
    /\ \E n, w, h \in cd.nodes :
          /\ cd.symbol[n] = "O" /\ cd.symbol[w] = "O" /\ IsHydrogen(cd, h)
          /\ HeavyBonds(cd, w) = {} /\ HeavyBonds(cd, n) # {}
          /\ {n, h} \in cd.edges /\ {w, h} \in cd.edges
          /\ ~ cd.polymeric[{n, h}] /\ ret.value.graph.polymeric[{n, h}]
          /\ ~ cd.polymeric[{w, h}] /\ ~ ret.value.graph.polymeric[{w, h}]
    /\ \E e \in cd.edges : ret.value.graph.bondtype[e] = 2

HasSign(label) == \E i \in 1..Len(label) : label[i] \in {"+", "-"}

HasDigit(label) == \E i \in 1..Len(label) : label[i] \in SeqToSet(Digits)

RECURSIVE Pow10(_)
Pow10(k) == IF k = 0 THEN 1 ELSE 10 * Pow10(k - 1)

\* the number written by the first run of digits of label
FirstNumber(label) ==
    LET a == Min({i \in 1..Len(label) : label[i] \in SeqToSet(Digits)})
        b == Min({i \in a..Len(label) :
                     i = Len(label) \/ label[i + 1] \notin SeqToSet(Digits)})
    IN  SumOver(a..b, [i \in a..b |-> DigitValue(label[i]) * Pow10(b - i)])

Magnitude(label) == IF HasDigit(label) THEN FirstNumber(label) ELSE 1

Abs(x) == IF x < 0 THEN 0 - x ELSE x

\* the atom the k-th label belongs to has been added
Added(k) == (k - 1) \in cd.nodes

\* the k-th label stopped the conversion: no atom for it, no diagram
Fatal(k) ==
    /\ k = Len(call.labels) /\ ~ Added(k)
    /\ call.pc = "raised" /\ ret = Raise("ConverterError")

\* C17: an empty label gives charge 0; a non-empty label without digits
\* gives magnitude 1, also without a sign character; a label with digits
\* gives their number, negated when the label holds "-"; a label with
\* digits and neither "+" nor "-" is a fatal converter error.
C17_ChargeLabel ==
    Converting =>
        \A k \in 1..Len(call.labels) :
            LET label == call.labels[k]
            IN  /\ label = <<>> => Added(k) /\ cd.charge[k - 1] = 0
                /\ (label # <<>> /\ ~ HasDigit(label)) =>
                      Added(k) /\ Abs(cd.charge[k - 1]) = 1
                /\ (HasDigit(label) /\ HasSign(label)) =>
                      /\ Added(k)
                      /\ Abs(cd.charge[k - 1]) = FirstNumber(label)
                      /\ ("-" \in SeqToSet(label)) => cd.charge[k - 1] <= 0
                /\ (HasDigit(label) /\ ~ HasSign(label)) => Fatal(k)

\* C17, amended: an empty label gives charge 0; a non-empty label with
\* neither "+" nor "-" is a fatal converter error, with digits or without;
\* a label with a sign gives the number of its first digits, or 1 without
\* digits, negated exactly when the label holds "-".
C17_ChargeLabelSigned ==
    Converting =>
        /\ \A k \in 1..Len(call.labels) :
              LET label == call.labels[k]
              IN  /\ label = <<>> => Added(k) /\ cd.charge[k - 1] = 0
                  /\ (label # <<>> /\ ~ HasSign(label)) => Fatal(k)
                  /\ HasSign(label) =>
                        /\ Added(k)
                        /\ cd.charge[k - 1] =
                              IF "-" \in SeqToSet(label)
                              THEN 0 - Magnitude(label) ELSE Magnitude(label)
        /\ call.pc = "returned" =>
              /\ ret.exc = "none"
              /\ Cardinality(cd.nodes) = Len(call.labels)
              /\ \A n \in cd.nodes : ret.value.graph.charge[n] = cd.charge[n]

\* a diagram has been returned with an atom whose label has two digits
\* and "-", and one whose label is a sign alone
C17_Witness ==
    /\ Converting /\ call.pc = "returned"
    /\ \E k, l \in 1..Len(call.labels) :
          /\ Len(first_digits(call.labels[k])) = 2
          /\ "-" \in SeqToSet(call.labels[k])
          /\ ret.value.graph.charge[k - 1] < -10
          /\ call.labels[l] = <<"+">>
          /\ ret.value.graph.charge[l - 1] = 1

\* a label without digits and without a sign has stopped the conversion
C17_WitnessFatal ==
    /\ Converting /\ call.pc = "raised"
    /\ call.labels[Len(call.labels)] = <<"x">>
    /\ ret = Raise("ConverterError")

----------------------------------------------------------------------------
(* Properties of a filter made from rule text (SpecMacro) *)

\* the line is an inclusion rule whose path begins with the macro "M-"
IsMacroInclusion(line) ==
    /\ IsIn(<<"inclusion">>, line)
    /\ IsIn(<<"line", " ", "graph">>, line)
    /\ IsIn(<<" ", "M", "-">>, line)

----------------------------------------------------------------------------
(* Properties of the predicates on components (SpecComponents) *)

ComponentCalls ==
    {"scd.is_organic_cation_like", "scd.is_metal_oxide_or_halide", "cdf_function_0"}

\* C20: every diagram that get_components returns has at least one atom and
\* a connected graph, and a predicate applied to a component, alone or in
\* the loop of cdf_function_0, never ends in the assertion failure or any
\* other exception: its outcome is true or false.
C20_ComponentsNeverAssert ==
    /\ \A id \in Identifiers :
          LET cs == get_components(ChemicalDiagram(cd, id))
          IN  \A k \in DOMAIN cs :
                 /\ cs[k].graph.nodes # {}
                 /\ Connected(cs[k].graph)
                 /\ is_connected(cs[k].graph) = Return(TRUE)
    /\ call.op \in ComponentCalls =>
          ret.exc = "none" /\ ret.value \in BOOLEAN

\* a predicate has answered true on the second component of a diagram
\* that is not connected, on which the predicate itself would assert
C20_Witness ==
    /\ call.op = "scd.is_organic_cation_like"
    /\ call.component = 2
    /\ Disconnected(cd)
    /\ is_organic_cation_like(cd, call.is_amine_like) = Raise("AssertionError")
    /\ ret = Return(TRUE)

\* the loop of cdf_function_0 has run over a diagram of three components
C20_WitnessLoop ==
    /\ call.op = "cdf_function_0"
    /\ Len(get_components(ChemicalDiagram(cd, call.identifier))) = 3
    /\ ret = Return(FALSE)

====
